---- MODULE Spec2Model ----
(***************************************************************************)
(* A model of papergrid's Grid (src/papergrid/src/lib.rs): the style map,  *)
(* the border store, the span repair passes, the width/height resolver and *)
(* the renderer.  Indices are 0-based as in the source; a Vec is a TLA+     *)
(* sequence, so element i of a Vec v is v[i + 1].                           *)
(***************************************************************************)
EXTENDS Integers, Sequences, FiniteSets, TLC

VARIABLES
    size,                  \* Grid.size = <<rows, columns>>
    cells,                 \* Grid.cells: cells[r + 1][c + 1] is a String
    styles,                \* Grid.styles: HashMap<Entity, Style>
    margin,                \* Grid.margin
    borders,               \* Grid.borders: Borders
    override_split_lines,  \* Grid.override_split_lines: HashMap<usize, String>
    status,                \* "ok", or "panic" once an unwrap()/index/underflow aborted the program
    last,                  \* the last operation called, with what it was given and what it returned
    nops,                  \* number of operations called so far
    pc,                    \* position of the render pass (Display::fmt) that is under way
    wk                     \* the locals of that render pass

vars == <<size, cells, styles, margin, borders, override_split_lines, status, last, nops, pc, wk>>

gridVars == <<size, cells, styles, margin, borders, override_split_lines>>

----------------------------------------------------------------------------
(* Bounds of the model.                                                     *)

\* operations called on one grid
MaxOps == 2

\* largest span value handed to Settings::span
MaxSpan == 3

----------------------------------------------------------------------------
(* Option<T>, Vec and HashMap helpers.                                      *)

None == <<>>

Some(v) == <<v>>

IsSome(o) == o # <<>>

Unwrap(o) == o[1]

Max2(a, b) == IF a >= b THEN a ELSE b

Min2(a, b) == IF a <= b THEN a ELSE b

Range0(a, b) == a .. (b - 1)

RECURSIVE Repeat(_, _)
Repeat(c, n) == IF n <= 0 THEN <<>> ELSE <<c>> \o Repeat(c, n - 1)

RECURSIVE SumSeq(_)
SumSeq(s) == IF s = <<>> THEN 0 ELSE Head(s) + SumSeq(Tail(s))

RECURSIVE MaxSeq(_)
MaxSeq(s) == IF s = <<>> THEN 0 ELSE Max2(Head(s), MaxSeq(Tail(s)))

RECURSIVE Concat(_)
Concat(ss) == IF ss = <<>> THEN <<>> ELSE Head(ss) \o Concat(Tail(ss))

RECURSIVE SortedSeq(_)
SortedSeq(S) ==
    IF S = {} THEN <<>>
    ELSE LET m == CHOOSE x \in S : \A y \in S : x <= y
         IN <<m>> \o SortedSeq(S \ {m})

EmptyMap == [x \in {} |-> 0]

HasKey(m, k) == k \in DOMAIN m

Insert(m, k, v) == [x \in (DOMAIN m) \cup {k} |-> IF x = k THEN v ELSE m[x]]

----------------------------------------------------------------------------
(* Characters and program constants.                                        *)

DEFAULT_SPLIT_BORDER_CHAR == " "

DEFAULT_SPLIT_INTERSECTION_CHAR == " "

DEFAULT_INDENT_FILL_CHAR == " "

NL == "\n"

TAB == "\t"

BACKSLASH == "\\"

DEFAULT_CELL_STYLE ==
    [top |-> Some("-"), bottom |-> Some("-"), left |-> Some("|"), right |-> Some("|"),
     right_top_corner |-> Some("+"), left_bottom_corner |-> Some("+"),
     left_top_corner |-> Some("+"), right_bottom_corner |-> Some("+")]

----------------------------------------------------------------------------
(* Entity, Indent, Padding, Margin, Formatting, Style, Border, Settings.    *)

Global == [kind |-> "Global", row |-> 0, col |-> 0]

Column(c) == [kind |-> "Column", row |-> 0, col |-> c]

Row(r) == [kind |-> "Row", row |-> r, col |-> 0]

Cell(r, c) == [kind |-> "Cell", row |-> r, col |-> c]

Indent(n, fill) == [fill |-> fill, size |-> n]

IndentDefault == Indent(0, DEFAULT_INDENT_FILL_CHAR)

PaddingDefault ==
    [top |-> IndentDefault, bottom |-> IndentDefault, left |-> IndentDefault, right |-> IndentDefault]

MarginDefault ==
    [top |-> IndentDefault, bottom |-> IndentDefault, left |-> IndentDefault, right |-> IndentDefault]

DefaultTabWidth == 4

FormattingDefault ==
    [horizontal_trim |-> FALSE, vertical_trim |-> FALSE,
     allow_lines_alignement |-> FALSE, tab_width |-> DefaultTabWidth]

DefaultSpan == 1

StyleDefault ==
    [span |-> DefaultSpan, padding |-> PaddingDefault, alignment_h |-> "Left",
     alignment_v |-> "Top", formatting |-> FormattingDefault]

BorderDefault ==
    [top |-> None, bottom |-> None, left |-> None, right |-> None,
     right_top_corner |-> None, left_bottom_corner |-> None,
     left_top_corner |-> None, right_bottom_corner |-> None]

BorderFilled(c) ==
    [top |-> Some(c), bottom |-> Some(c), left |-> Some(c), right |-> Some(c),
     right_top_corner |-> Some(c), left_bottom_corner |-> Some(c),
     left_top_corner |-> Some(c), right_bottom_corner |-> Some(c)]

SettingsNew ==
    [text |-> None, padding |-> None, border |-> None, border_split_check |-> FALSE,
     span |-> None, alignment_h |-> None, alignment_v |-> None, formatting |-> None]

SettingsText(s, t) == [s EXCEPT !.text = Some(t)]

SettingsPadding(s, l, r, t, b) ==
    [s EXCEPT !.padding = Some([top |-> t, bottom |-> b, left |-> l, right |-> r])]

SettingsAlignment(s, a) == [s EXCEPT !.alignment_h = Some(a)]

SettingsVerticalAlignment(s, a) == [s EXCEPT !.alignment_v = Some(a)]

SettingsSpan(s, n) == [s EXCEPT !.span = Some(n)]

SettingsBorder(s, b) == [s EXCEPT !.border = Some(b)]

SettingsFormatting(s, f) == [s EXCEPT !.formatting = Some(f)]

----------------------------------------------------------------------------
(* Borders: the sparse store of split lines and intersections.              *)

BordersNew(count_rows, count_columns) ==
    [vertical |-> EmptyMap, horizontal |-> EmptyMap, intersections |-> EmptyMap,
     count_columns |-> count_columns, count_rows |-> count_rows]

Ok(b) == [ok |-> TRUE, b |-> b]

Err(b) == [ok |-> FALSE, b |-> b]

BorderLineDefault == [main |-> None, connector1 |-> None, connector2 |-> None]

get_horizontal_char(b, row, column) ==
    IF HasKey(b.horizontal, row) THEN Some(b.horizontal[row][column + 1]) ELSE None

get_vertical_char(b, row, column) ==
    IF HasKey(b.vertical, column) THEN Some(b.vertical[column][row + 1]) ELSE None

\* a lookup that reads a missing intersection as the default character
get_intersection_char_or_default(b, pos) ==
    IF HasKey(b.intersections, pos) THEN Some(b.intersections[pos])
    ELSE Some(DEFAULT_SPLIT_INTERSECTION_CHAR)

get_intersection_char(b, pos) ==
    IF HasKey(b.intersections, pos) THEN Some(b.intersections[pos]) ELSE None

\* the BorderLine of every column on row boundary `row`
get_row(b, row) ==
    IF ~HasKey(b.horizontal, row)
    THEN [i \in 1 .. b.count_columns |-> BorderLineDefault]
    ELSE [i \in 1 .. b.count_columns |->
            [main |-> Some(Unwrap(get_horizontal_char(b, row, i - 1))),
             connector1 |-> get_intersection_char(b, <<row, i - 1>>),
             connector2 |-> get_intersection_char(b, <<row, i>>)]]

\* the vertical characters printed inside the content lines of `row`
get_inner_row(b, row) ==
    [i \in 1 .. b.count_columns |->
        [main |-> None,
         connector1 |-> get_vertical_char(b, row, i - 1),
         connector2 |-> get_vertical_char(b, row, i)]]

need_horizontal_intersections(b) == Cardinality(DOMAIN b.vertical) + 1

need_vertical_intersections(b) == Cardinality(DOMAIN b.horizontal) + 1

is_there_vertical(b, column) == HasKey(b.vertical, column)

is_there_horizontal(b, row) == HasKey(b.horizontal, row)

\* keys().zip(intersections): the k-th key met is given the k-th symbol
ZipKeys(keys, symbols) ==
    LET ks == SortedSeq(keys)
    IN [i \in 1 .. Min2(Len(ks), Len(symbols)) |-> <<ks[i], symbols[i]>>]

RECURSIVE InsertIntersections(_, _)
InsertIntersections(m, entries) ==
    IF entries = <<>> THEN m
    ELSE InsertIntersections(Insert(m, Head(entries)[1], Head(entries)[2]), Tail(entries))

set_horizontal(b, row, line, intersections) ==
    IF row > b.count_rows THEN Err(b)
    ELSE IF Len(line) # b.count_columns THEN Err(b)
    ELSE IF Len(intersections) # need_horizontal_intersections(b) THEN Err(b)
    ELSE LET zipped == ZipKeys(DOMAIN b.vertical, intersections)
             entries == [i \in 1 .. Len(zipped) |-> <<<<row, zipped[i][1]>>, zipped[i][2]>>]
         IN Ok([b EXCEPT !.horizontal = Insert(b.horizontal, row, line),
                         !.intersections = InsertIntersections(b.intersections, entries)])

set_vertical(b, column, line, intersections) ==
    IF column > b.count_columns THEN Err(b)
    ELSE IF Len(line) # b.count_rows THEN Err(b)
    ELSE IF Len(intersections) # need_vertical_intersections(b) THEN Err(b)
    ELSE LET zipped == ZipKeys(DOMAIN b.horizontal, intersections)
             entries == [i \in 1 .. Len(zipped) |-> <<<<zipped[i][1], column>>, zipped[i][2]>>]
         IN Ok([b EXCEPT !.vertical = Insert(b.vertical, column, line),
                         !.intersections = InsertIntersections(b.intersections, entries)])

\* a clear that forgets the intersections
BordersClearLines(b) == [b EXCEPT !.horizontal = EmptyMap, !.vertical = EmptyMap]

BordersClear(b) ==
    [b EXCEPT !.horizontal = EmptyMap, !.vertical = EmptyMap, !.intersections = EmptyMap]

\* a set_intersection that stores the character without looking for the lines
set_intersection_unchecked(b, pos, c) ==
    Ok([b EXCEPT !.intersections = Insert(b.intersections, pos, c)])

set_intersection(b, pos, c) ==
    LET row == pos[1]
        column == pos[2]
    IN IF row > b.count_rows + 1 \/ ~HasKey(b.horizontal, row) THEN Err(b)
       ELSE IF column > b.count_columns + 1 \/ ~HasKey(b.vertical, column) THEN Err(b)
       ELSE IF HasKey(b.intersections, pos)
            THEN Ok([b EXCEPT !.intersections = Insert(b.intersections, pos, c)])
            ELSE Err(b)

\* chars.get_mut(column).unwrap() aborts when column = chars.len()
set_row_symbol(b, pos, c) ==
    LET row == pos[1]
        column == pos[2]
    IN IF row > b.count_rows \/ ~HasKey(b.horizontal, row) THEN Err(b)
       ELSE IF column > b.count_columns THEN Err(b)
       ELSE IF column >= Len(b.horizontal[row]) THEN Err(b)
       ELSE Ok([b EXCEPT !.horizontal =
                    Insert(b.horizontal, row, [b.horizontal[row] EXCEPT ![column + 1] = c])])

set_column_symbol(b, pos, c) ==
    LET row == pos[1]
        column == pos[2]
    IN IF row > b.count_rows THEN Err(b)
       ELSE IF column > b.count_columns \/ ~HasKey(b.vertical, column) THEN Err(b)
       ELSE IF row >= Len(b.vertical[column]) THEN Err(b)
       ELSE Ok([b EXCEPT !.vertical =
                    Insert(b.vertical, column, [b.vertical[column] EXCEPT ![row + 1] = c])])

\* CellBorderIndex: the boundary positions around cell (row, col)
CbTop(row, col) == <<row, col>>

CbBottom(row, col) == <<row + 1, col>>

CbLeft(row, col) == <<row, col>>

CbRight(row, col) == <<row, col + 1>>

CbTopLeft(row, col) == <<row, col>>

CbTopRight(row, col) == <<row, col + 1>>

CbBottomLeft(row, col) == <<row + 1, col>>

CbBottomRight(row, col) == <<row + 1, col + 1>>

BordersGetBorder(b, row, column) ==
    [top |-> get_horizontal_char(b, CbTop(row, column)[1], CbTop(row, column)[2]),
     bottom |-> get_horizontal_char(b, CbBottom(row, column)[1], CbBottom(row, column)[2]),
     left |-> get_vertical_char(b, CbLeft(row, column)[1], CbLeft(row, column)[2]),
     right |-> get_vertical_char(b, CbRight(row, column)[1], CbRight(row, column)[2]),
     left_top_corner |-> get_intersection_char(b, CbTopLeft(row, column)),
     left_bottom_corner |-> get_intersection_char(b, CbBottomLeft(row, column)),
     right_top_corner |-> get_intersection_char(b, CbTopRight(row, column)),
     right_bottom_corner |-> get_intersection_char(b, CbBottomRight(row, column))]

\* Borders::get_border: None past the grid, the eight characters otherwise
get_border(b, row, column) ==
    IF row > b.count_rows \/ column > b.count_columns THEN None
    ELSE Some(BordersGetBorder(b, row, column))

----------------------------------------------------------------------------
(* Grid: construction, the style map and the setters.  A grid value is the *)
(* record of Grid's fields; a fallible call returns [ok, g], where ok =    *)
(* FALSE stands for the panic of an unwrap() and g is the grid as the      *)
(* panic left it.                                                           *)

GridNew(rows, columns) ==
    [size |-> <<rows, columns>>,
     cells |-> [r \in 1 .. rows |-> [c \in 1 .. columns |-> <<>>]],
     styles |-> (Global :> StyleDefault),
     margin |-> MarginDefault,
     borders |-> BordersNew(rows, columns),
     override_split_lines |-> EmptyMap]

Done(g) == [ok |-> TRUE, g |-> g]

Panic(g) == [ok |-> FALSE, g |-> g]

\* Result<(), BorderError>::unwrap() on a call that changed the border store
UnwrapBorders(g, res) ==
    IF res.ok THEN Done([g EXCEPT !.borders = res.b]) ELSE Panic([g EXCEPT !.borders = res.b])

count_rows(g) == g.size[1]

count_columns(g) == g.size[2]

\* a lookup in which a cell asks its row before its column
lookup_table_row_first(entity) ==
    CASE entity.kind = "Global" -> <<Global>>
      [] entity.kind = "Column" -> <<Column(entity.col), Global>>
      [] entity.kind = "Row" -> <<Row(entity.row), Global>>
      [] entity.kind = "Cell" ->
            <<Cell(entity.row, entity.col), Row(entity.row), Column(entity.col), Global>>

lookup_table(entity) ==
    CASE entity.kind = "Global" -> <<Global>>
      [] entity.kind = "Column" -> <<Column(entity.col), Global>>
      [] entity.kind = "Row" -> <<Row(entity.row), Global>>
      [] entity.kind = "Cell" ->
            <<Cell(entity.row, entity.col), Column(entity.col), Row(entity.row), Global>>

RECURSIVE FirstStored(_, _)
FirstStored(m, table) ==
    IF table = <<>> THEN None
    ELSE IF HasKey(m, Head(table)) THEN Some(m[Head(table)])
    ELSE FirstStored(m, Tail(table))

\* Grid::style; unreachable!() when even Global is missing
GridStyleOpt(g, entity) == FirstStored(g.styles, lookup_table(entity))

GridStyle(g, entity) == Unwrap(GridStyleOpt(g, entity))

\* a style_mut whose new entry starts from the default style
style_mut_from_default(g, entity) ==
    IF HasKey(g.styles, entity) THEN g
    ELSE [g EXCEPT !.styles = Insert(g.styles, entity, StyleDefault)]

\* Grid::style_mut: the grid in which `entity` has an entry of its own
style_mut(g, entity) ==
    IF HasKey(g.styles, entity) THEN g
    ELSE [g EXCEPT !.styles = Insert(g.styles, entity, GridStyle(g, entity))]

set_text(g, entity, text) ==
    [g EXCEPT !.cells =
        [r \in 1 .. count_rows(g) |-> [c \in 1 .. count_columns(g) |->
            IF \/ entity.kind = "Global"
               \/ entity.kind = "Row" /\ entity.row = r - 1
               \/ entity.kind = "Column" /\ entity.col = c - 1
               \/ entity.kind = "Cell" /\ entity.row = r - 1 /\ entity.col = c - 1
            THEN text ELSE g.cells[r][c]]]]

\* an add_horizontal_split that leaves a boundary that is already split alone
add_horizontal_split_once(g, row) ==
    IF is_there_horizontal(g.borders, row) THEN Done(g)
    ELSE UnwrapBorders(g, set_horizontal(g.borders, row,
            Repeat(DEFAULT_SPLIT_BORDER_CHAR, count_columns(g)),
            Repeat(DEFAULT_SPLIT_INTERSECTION_CHAR, need_horizontal_intersections(g.borders))))

add_horizontal_split(g, row) ==
    UnwrapBorders(g, set_horizontal(g.borders, row,
        Repeat(DEFAULT_SPLIT_BORDER_CHAR, count_columns(g)),
        Repeat(DEFAULT_SPLIT_INTERSECTION_CHAR, need_horizontal_intersections(g.borders))))

add_vertical_split(g, column) ==
    UnwrapBorders(g, set_vertical(g.borders, column,
        Repeat(DEFAULT_SPLIT_BORDER_CHAR, count_rows(g)),
        Repeat(DEFAULT_SPLIT_INTERSECTION_CHAR, need_vertical_intersections(g.borders))))

RECURSIVE AddHorizontalSplits(_, _)
AddHorizontalSplits(g, rows) ==
    IF rows = <<>> THEN Done(g)
    ELSE LET r == add_horizontal_split(g, Head(rows))
         IN IF r.ok THEN AddHorizontalSplits(r.g, Tail(rows)) ELSE r

RECURSIVE AddVerticalSplits(_, _)
AddVerticalSplits(g, columns) ==
    IF columns = <<>> THEN Done(g)
    ELSE LET r == add_vertical_split(g, Head(columns))
         IN IF r.ok THEN AddVerticalSplits(r.g, Tail(columns)) ELSE r

add_grid_split(g) ==
    LET r == AddHorizontalSplits(g, [i \in 1 .. count_rows(g) + 1 |-> i - 1])
    IN IF r.ok THEN AddVerticalSplits(r.g, [i \in 1 .. count_columns(g) + 1 |-> i - 1]) ELSE r

clear_split_grid(g) == [g EXCEPT !.borders = BordersClear(g.borders)]

\* the cells an entity stands for, in the order set_border and add_split_lines visit them
EntityCells(g, entity) ==
    LET R == count_rows(g)
        C == count_columns(g)
    IN CASE entity.kind = "Global" ->
                [i \in 1 .. R * C |-> <<(i - 1) % R, (i - 1) \div R>>]
         [] entity.kind = "Column" -> [i \in 1 .. R |-> <<i - 1, entity.col>>]
         [] entity.kind = "Row" -> [i \in 1 .. C |-> <<entity.row, i - 1>>]
         [] entity.kind = "Cell" -> << <<entity.row, entity.col>> >>

\* the eight assignments of set_border_for_cell, in source order
BorderSteps(row, column, border) ==
    << <<"column", CbLeft(row, column), border.left>>,
       <<"column", CbRight(row, column), border.right>>,
       <<"row", CbTop(row, column), border.top>>,
       <<"row", CbBottom(row, column), border.bottom>>,
       <<"intersection", CbTopLeft(row, column), border.left_top_corner>>,
       <<"intersection", CbTopRight(row, column), border.right_top_corner>>,
       <<"intersection", CbBottomLeft(row, column), border.left_bottom_corner>>,
       <<"intersection", CbBottomRight(row, column), border.right_bottom_corner>> >>

BorderStep(b, step) ==
    IF ~IsSome(step[3]) THEN Ok(b)
    ELSE CASE step[1] = "column" -> set_column_symbol(b, step[2], Unwrap(step[3]))
           [] step[1] = "row" -> set_row_symbol(b, step[2], Unwrap(step[3]))
           [] step[1] = "intersection" -> set_intersection(b, step[2], Unwrap(step[3]))

RECURSIVE BorderStepsApply(_, _)
BorderStepsApply(b, steps) ==
    IF steps = <<>> THEN Ok(b)
    ELSE LET r == BorderStep(b, Head(steps))
         IN IF r.ok THEN BorderStepsApply(r.b, Tail(steps)) ELSE r

set_border_for_cell(g, row, column, border) ==
    UnwrapBorders(g, BorderStepsApply(g.borders, BorderSteps(row, column, border)))

RECURSIVE SetBorderCells(_, _, _)
SetBorderCells(g, cs, border) ==
    IF cs = <<>> THEN Done(g)
    ELSE LET r == set_border_for_cell(g, Head(cs)[1], Head(cs)[2], border)
         IN IF r.ok THEN SetBorderCells(r.g, Tail(cs), border) ELSE r

set_border(g, entity, border) == SetBorderCells(g, EntityCells(g, entity), border)

\* the vertical line is added anew even when it is there
SplitVerticalAlways(r, affected, column) ==
    IF r.ok /\ affected THEN add_vertical_split(r.g, column) ELSE r

\* add_split_lines_for_cell, one `if` each: the split line is added when the
\* border touches that side and the line is missing
SplitVerticalIfAffected(r, affected, column) ==
    IF r.ok /\ affected /\ ~is_there_vertical(r.g.borders, column)
    THEN add_vertical_split(r.g, column) ELSE r

SplitHorizontalIfAffected(r, affected, row) ==
    IF r.ok /\ affected /\ ~is_there_horizontal(r.g.borders, row)
    THEN add_horizontal_split(r.g, row) ELSE r

add_split_lines_for_cell(g, row, column, border) ==
    SplitHorizontalIfAffected(
        SplitHorizontalIfAffected(
            SplitVerticalIfAffected(
                SplitVerticalIfAffected(Done(g),
                    IsSome(border.left) \/ IsSome(border.left_bottom_corner)
                        \/ IsSome(border.left_top_corner),
                    column),
                IsSome(border.right) \/ IsSome(border.right_bottom_corner)
                    \/ IsSome(border.right_top_corner),
                column + 1),
            IsSome(border.top) \/ IsSome(border.right_top_corner)
                \/ IsSome(border.left_top_corner),
            row),
        IsSome(border.bottom) \/ IsSome(border.right_bottom_corner)
            \/ IsSome(border.left_bottom_corner),
        row + 1)

RECURSIVE AddSplitLinesCells(_, _, _)
AddSplitLinesCells(g, cs, border) ==
    IF cs = <<>> THEN Done(g)
    ELSE LET r == add_split_lines_for_cell(g, Head(cs)[1], Head(cs)[2], border)
         IN IF r.ok THEN AddSplitLinesCells(r.g, Tail(cs), border) ELSE r

add_split_lines(g, entity, border) == AddSplitLinesCells(g, EntityCells(g, entity), border)

\* Grid::set, one `if let` each
SetText(g, entity, settings) ==
    IF IsSome(settings.text) THEN set_text(g, entity, Unwrap(settings.text)) ELSE g

SetPadding(g, entity, settings) ==
    IF IsSome(settings.padding)
    THEN [style_mut(g, entity) EXCEPT !.styles[entity].padding = Unwrap(settings.padding)]
    ELSE g

SetAlignmentH(g, entity, settings) ==
    IF IsSome(settings.alignment_h)
    THEN [style_mut(g, entity) EXCEPT !.styles[entity].alignment_h = Unwrap(settings.alignment_h)]
    ELSE g

SetAlignmentV(g, entity, settings) ==
    IF IsSome(settings.alignment_v)
    THEN [style_mut(g, entity) EXCEPT !.styles[entity].alignment_v = Unwrap(settings.alignment_v)]
    ELSE g

\* a span update that reaches every stored override
SetSpanEverywhere(g, entity, settings) ==
    IF IsSome(settings.span)
    THEN [style_mut(g, entity) EXCEPT
            !.styles = [e \in DOMAIN @ |-> [@[e] EXCEPT !.span = Unwrap(settings.span)]]]
    ELSE g

SetSpan(g, entity, settings) ==
    IF IsSome(settings.span)
    THEN [style_mut(g, entity) EXCEPT !.styles[entity].span = Unwrap(settings.span)]
    ELSE g

SetFormatting(g, entity, settings) ==
    IF IsSome(settings.formatting)
    THEN [style_mut(g, entity) EXCEPT !.styles[entity].formatting = Unwrap(settings.formatting)]
    ELSE g

\* the missing split lines are added first when border_split_check is set
SetBorderChecked(r, entity, border) ==
    IF r.ok THEN set_border(r.g, entity, border) ELSE r

SetBorder(g, entity, settings) ==
    IF ~IsSome(settings.border) THEN Done(g)
    ELSE SetBorderChecked(
            IF settings.border_split_check
            THEN add_split_lines(g, entity, Unwrap(settings.border)) ELSE Done(g),
            entity, Unwrap(settings.border))

\* Grid::set: every present field in source order, the border last
GridSet(g, entity, settings) ==
    SetBorder(
        SetFormatting(
            SetSpan(
                SetAlignmentV(
                    SetAlignmentH(
                        SetPadding(SetText(g, entity, settings), entity, settings),
                        entity, settings),
                    entity, settings),
                entity, settings),
            entity, settings),
        entity, settings)

----------------------------------------------------------------------------
(* Text: a String is a sequence of characters.                              *)

RECURSIVE SplitAcc(_, _, _)
SplitAcc(segments, current, rest) ==
    IF rest = <<>> THEN Append(segments, current)
    ELSE IF Head(rest) = NL THEN SplitAcc(Append(segments, current), <<>>, Tail(rest))
    ELSE SplitAcc(segments, Append(current, Head(rest)), Tail(rest))

\* str::lines(): the segments between line feeds, without a final empty one
Lines(text) ==
    LET segments == SplitAcc(<<>>, <<>>, text)
    IN IF segments[Len(segments)] = <<>> THEN SubSeq(segments, 1, Len(segments) - 1)
       ELSE segments

\* every character of the model's alphabet takes one column
line_width(l) == Len(l)

string_width(text) == MaxSeq([i \in 1 .. Len(Lines(text)) |-> line_width(Lines(text)[i])])

IsWhitespace(c) == c \in {" ", TAB, NL}

RECURSIVE TrimStart(_)
TrimStart(l) == IF l # <<>> /\ IsWhitespace(Head(l)) THEN TrimStart(Tail(l)) ELSE l

RECURSIVE TrimEnd(_)
TrimEnd(l) ==
    IF l # <<>> /\ IsWhitespace(l[Len(l)]) THEN TrimEnd(SubSeq(l, 1, Len(l) - 1)) ELSE l

Trim(l) == TrimEnd(TrimStart(l))

RECURSIVE ReplaceTabAcc(_, _, _)
ReplaceTabAcc(out, rest, n) ==
    IF rest = <<>> THEN out
    ELSE IF Head(rest) # TAB THEN ReplaceTabAcc(Append(out, Head(rest)), Tail(rest), n)
    ELSE IF out # <<>> /\ out[Len(out)] = BACKSLASH
         THEN ReplaceTabAcc(Append(out, TAB), Tail(rest), n)
    ELSE ReplaceTabAcc(out \o Repeat(" ", n), Tail(rest), n)

replace_tab(cell, n) == ReplaceTabAcc(<<>>, cell, n)

----------------------------------------------------------------------------
(* Span visibility and the repair passes, on one row of styles.             *)

\* styles[..n]: does a cell of the first n reach over column n?
is_cell_overriden(row_styles, n) ==
    \E i \in Range0(0, n) : row_styles[i + 1].span > n - i

is_cell_visible(row_styles, column) ==
    IF row_styles[column + 1].span = 0 THEN FALSE
    ELSE ~is_cell_overriden(row_styles, column)

RECURSIVE FixInvisibleFrom(_, _)
FixInvisibleFrom(row_styles, col) ==
    IF col >= Len(row_styles) THEN row_styles
    ELSE IF ~is_cell_visible(row_styles, col)
         THEN FixInvisibleFrom([row_styles EXCEPT ![col + 1].span = 0], col + 1)
    ELSE FixInvisibleFrom(row_styles, col + 1)

fix_invisible_cell(row_styles) == FixInvisibleFrom(row_styles, 0)

fix_styles(styles_) == [r \in 1 .. Len(styles_) |-> fix_invisible_cell(styles_[r])]

Swap(v, i, j) == [v EXCEPT ![i + 1] = v[j + 1], ![j + 1] = v[i + 1]]

\* returns <<styles, cells>> of the row
fix_first_column_span(row_styles, row_cells) ==
    IF row_styles[1].span = 0
    THEN LET later == {i \in Range0(1, Len(row_styles)) : row_styles[i + 1].span > 0}
         IN IF later = {} THEN <<row_styles, row_cells>>
            ELSE LET i == CHOOSE x \in later : \A y \in later : x <= y
                     grown == [row_styles EXCEPT ![i + 1].span = @ + i]
                 IN <<Swap(grown, 0, i), Swap(row_cells, 0, i)>>
    ELSE <<row_styles, row_cells>>

RECURSIVE FixZeroColumnFrom(_, _)
FixZeroColumnFrom(row_styles, i) ==
    IF i >= Len(row_styles) THEN row_styles
    ELSE IF row_styles[i + 1].span > 0 THEN FixZeroColumnFrom(row_styles, i + 1)
    ELSE IF is_cell_overriden(row_styles, i) THEN FixZeroColumnFrom(row_styles, i + 1)
    ELSE LET prev == {p \in Range0(0, i) : row_styles[p + 1].span > 0}
         IN IF prev = {} THEN FixZeroColumnFrom(row_styles, i + 1)
            ELSE LET pos == CHOOSE x \in prev : \A y \in prev : x >= y
                 IN FixZeroColumnFrom([row_styles EXCEPT ![pos + 1].span = (i - pos) + 1], i + 1)

\* a pass that leaves the zero spans inside the row as they are
fix_zero_column_span_skipped(row_styles) == row_styles

fix_zero_column_span(row_styles) == FixZeroColumnFrom(row_styles, 0)

\* returns <<styles, cells>> of the row
fix_zero_spans(row_styles, row_cells) ==
    IF row_styles = <<>> THEN <<row_styles, row_cells>>
    ELSE LET first == fix_first_column_span(row_styles, row_cells)
         IN <<fix_zero_column_span(first[1]), first[2]>>

\* returns <<styles, cells>> of the grid
fix_spans(styles_, cells_) ==
    <<[r \in 1 .. Len(styles_) |-> fix_zero_spans(styles_[r], cells_[r])[1]],
      [r \in 1 .. Len(styles_) |-> fix_zero_spans(styles_[r], cells_[r])[2]]>>

----------------------------------------------------------------------------
(* The width and height resolver.  styles_, cells_, widths and borders_ are *)
(* the render pass's matrices: one sequence per row.                        *)

cell_width(cell, style) ==
    MaxSeq([i \in 1 .. Len(cell) |-> line_width(cell[i])])
        + style.padding.left.size + style.padding.right.size

\* a cell height that leaves the padding out
cell_height_of_content(cell, style) == Len(cell)

cell_height(cell, style) == Len(cell) + style.padding.top.size + style.padding.bottom.size

rows_height(cells_, styles_, rows, columns) ==
    [r \in 1 .. rows |->
        MaxSeq(<<1>> \o [c \in 1 .. columns |-> cell_height(cells_[r][c], styles_[r][c])])]

is_cell_in_scope(row_styles, col, end_col) == col + row_styles[col + 1].span <= end_col

is_there_out_of_scope_cell(row_styles, start_column, end_column) ==
    \/ ~is_cell_visible(row_styles, start_column)
    \/ \E col \in Range0(start_column, end_column) :
            is_cell_visible(row_styles, col) /\ ~is_cell_in_scope(row_styles, col, end_column)

row_width(row_styles, row_widths, row_borders, column_start, column_end) ==
    LET counted == {i \in Range0(column_start, column_end) :
                        is_cell_visible(row_styles, i) /\ is_cell_in_scope(row_styles, i, column_end)}
        width == SumSeq([k \in 1 .. Len(SortedSeq(counted)) |-> row_widths[SortedSeq(counted)[k] + 1]])
        border_count == Cardinality({i \in counted :
                            i # column_start /\ IsSome(row_borders[i + 1].connector1)})
    IN width + border_count

\* one unit at a time over the visible cells of the range, cycling
inc_cells_width(row_widths, row_styles, start_range, end_range, inc) ==
    LET visible == SortedSeq({i \in Range0(start_range, end_range) : is_cell_visible(row_styles, i)})
        n == Len(visible)
    IN IF n = 0 THEN row_widths
       ELSE [c \in 1 .. Len(row_widths) |->
                IF \E j \in 1 .. n : visible[j] = c - 1
                THEN LET j == CHOOSE x \in 1 .. n : visible[x] = c - 1
                     IN row_widths[c] + (inc \div n) + (IF j - 1 < inc % n THEN 1 ELSE 0)
                ELSE row_widths[c]]

\* the row of greatest width over the range; max_by_key returns the last of
\* several equal maxima
RangeMax(widths, styles_, borders_, rows, start_column, end_column) ==
    LET rw(r) == row_width(styles_[r], widths[r], borders_[r], start_column, end_column)
        max_width == MaxSeq([r \in 1 .. rows |-> rw(r)])
    IN [row |-> CHOOSE r \in 1 .. rows :
                    rw(r) = max_width /\ \A q \in 1 .. rows : rw(q) = max_width => q <= r,
        width |-> max_width]

\* adjust_range_width, "increase the widths": every in-scope row but max_row
\* is widened to max_width
IncreaseWidths(widths, styles_, borders_, rows, start_column, end_column, max_row, max_width) ==
    [r \in 1 .. rows |->
        IF r # max_row /\ ~is_there_out_of_scope_cell(styles_[r], start_column, end_column)
        THEN inc_cells_width(widths[r], styles_[r], start_column, end_column,
                max_width - row_width(styles_[r], widths[r], borders_[r], start_column, end_column))
        ELSE widths[r]]

\* a copy that takes the width of the first in-scope row whatever its span
CopyWidthsAnySpan(widths, styles_, rows, start_column, end_column, max_row) ==
    LET out(r) == is_there_out_of_scope_cell(styles_[r], start_column, end_column)
        other(r) == {q \in 1 .. rows : q # max_row /\ q # r /\ ~out(q)}
    IN [r \in 1 .. rows |->
            IF r # max_row /\ out(r)
            THEN [c \in 1 .. Len(widths[r]) |->
                    IF /\ c - 1 \in Range0(start_column, end_column)
                       /\ is_cell_visible(styles_[r], c - 1)
                       /\ other(r) # {}
                    THEN widths[CHOOSE q \in other(r) : \A q2 \in other(r) : q <= q2][c]
                    ELSE widths[r][c]]
            ELSE widths[r]]

\* adjust_range_width, "fixing the rows with out_of_scope cells": a visible
\* cell of such a row takes the width of the first in-scope row's cell with
\* the same span on the same column
CopyWidths(widths, styles_, rows, start_column, end_column, max_row) ==
    LET out(r) == is_there_out_of_scope_cell(styles_[r], start_column, end_column)
        same(r, col) == {q \in 1 .. rows :
                            /\ q # max_row /\ q # r /\ ~out(q)
                            /\ styles_[q][col + 1].span = styles_[r][col + 1].span}
    IN [r \in 1 .. rows |->
            IF r # max_row /\ out(r)
            THEN [c \in 1 .. Len(widths[r]) |->
                    IF /\ c - 1 \in Range0(start_column, end_column)
                       /\ is_cell_visible(styles_[r], c - 1)
                       /\ same(r, c - 1) # {}
                    THEN widths[CHOOSE q \in same(r, c - 1) :
                                        \A q2 \in same(r, c - 1) : q <= q2][c]
                    ELSE widths[r][c]]
            ELSE widths[r]]

adjust_range_width(widths, styles_, borders_, rows, start_column, end_column) ==
    IF rows = 0 THEN widths
    ELSE LET max == RangeMax(widths, styles_, borders_, rows, start_column, end_column)
         IN IF max.width = 0 THEN widths
            ELSE CopyWidths(
                    IncreaseWidths(widths, styles_, borders_, rows, start_column, end_column,
                                   max.row, max.width),
                    styles_, rows, start_column, end_column, max.row)

is_range_complete(styles_, widths, borders_, rows, start_column, end_column) ==
    LET scoped == {r \in 1 .. rows :
                        ~is_there_out_of_scope_cell(styles_[r], start_column, end_column)}
    IN /\ scoped # {}
       /\ \A r, q \in scoped :
            row_width(styles_[r], widths[r], borders_[r], start_column, end_column)
              = row_width(styles_[q], widths[q], borders_[q], start_column, end_column)

\* the ranges adjust_width walks for one span value
SpanRanges(columns, span) ==
    [i \in 1 .. Max2(0, columns - span + 1) |-> <<i - 1, i - 1 + span>>]

RECURSIVE AdjustRanges(_, _, _, _, _)
AdjustRanges(widths, styles_, borders_, rows, ranges) ==
    IF ranges = <<>> THEN widths
    ELSE AdjustRanges(
            adjust_range_width(widths, styles_, borders_, rows, Head(ranges)[1], Head(ranges)[2]),
            styles_, borders_, rows, Tail(ranges))

RECURSIVE RecheckRanges(_, _, _, _, _)
RecheckRanges(widths, styles_, borders_, rows, ranges) ==
    IF ranges = <<>> THEN widths
    ELSE RecheckRanges(
            IF is_range_complete(styles_, widths, borders_, rows, Head(ranges)[1], Head(ranges)[2])
            THEN widths
            ELSE adjust_range_width(widths, styles_, borders_, rows,
                                    Head(ranges)[1], Head(ranges)[2]),
            styles_, borders_, rows, Tail(ranges))

adjust_width(widths, styles_, borders_, rows, columns, span) ==
    RecheckRanges(
        AdjustRanges(widths, styles_, borders_, rows, SpanRanges(columns, span)),
        styles_, borders_, rows, SpanRanges(columns, span))

\* the seed of columns_width: the intrinsic width of every visible cell
SeedWidths(cells_, styles_, rows, columns) ==
    [r \in 1 .. rows |-> [c \in 1 .. columns |->
        IF is_cell_visible(styles_[r], c - 1) THEN cell_width(cells_[r][c], styles_[r][c]) ELSE 0]]

\* the BTreeSet of the nonzero span values, in increasing order
SpanValues(styles_) ==
    SortedSeq({styles_[r][c].span : r \in 1 .. Len(styles_), c \in 1 .. Len(styles_[1])} \ {0})

RECURSIVE AdjustSpans(_, _, _, _, _, _)
AdjustSpans(widths, styles_, borders_, rows, columns, spans) ==
    IF spans = <<>> THEN widths
    ELSE AdjustSpans(adjust_width(widths, styles_, borders_, rows, columns, Head(spans)),
                     styles_, borders_, rows, columns, Tail(spans))

columns_width(cells_, styles_, borders_, rows, columns) ==
    AdjustSpans(SeedWidths(cells_, styles_, rows, columns), styles_, borders_, rows, columns,
                SpanValues(styles_))

\* v after the walk over columns col.., or None when the walk panics: the
\* subtraction underflows, or v is indexed past its end
RECURSIVE NormalizeFrom(_, _, _, _, _, _, _)
NormalizeFrom(v, skip, col, widths, styles_, rows, columns) ==
    IF col >= columns THEN Some(v)
    ELSE IF skip > 0 THEN NormalizeFrom(v, skip - 1, col + 1, widths, styles_, rows, columns)
    ELSE LET spanned == {r \in 1 .. rows : styles_[r][col + 1].span > 0}
         IN IF spanned = {} THEN NormalizeFrom(v, skip, col + 1, widths, styles_, rows, columns)
            ELSE LET \* min_by returns the first of several equal minima
                     row == CHOOSE r \in spanned :
                              \A q \in spanned :
                                 \/ styles_[r][col + 1].span < styles_[q][col + 1].span
                                 \/ styles_[r][col + 1].span = styles_[q][col + 1].span /\ r <= q
                     span == styles_[row][col + 1].span
                     width == widths[row][col + 1] - (span - 1)
                     reached == Min2(width, span)
                 IN IF width < 0 THEN None
                    ELSE IF col + reached > columns THEN None
                    ELSE NormalizeFrom(
                            [c \in 1 .. columns |->
                                IF c - 1 >= col /\ c - 1 < col + span
                                THEN v[c] + (width \div span)
                                          + (IF (c - 1) - col < width % span THEN 1 ELSE 0)
                                ELSE v[c]],
                            skip + (span - 1), col + 1, widths, styles_, rows, columns)

normalized_width(widths, styles_, rows, columns) ==
    NormalizeFrom([c \in 1 .. columns |-> 0], 0, 0, widths, styles_, rows, columns)

count_borders(row_borders, row_styles) ==
    LET left_border == IF Len(row_borders) > 0 /\ IsSome(row_borders[1].connector1) THEN 1 ELSE 0
        other_borders == Cardinality({col \in Range0(0, Len(row_borders)) :
                            is_cell_visible(row_styles, col) /\ IsSome(row_borders[col + 1].connector2)})
    IN left_border + other_borders

total_width(widths, styles_, borders_, margin_) ==
    LET content_width == IF Len(widths) > 0 THEN SumSeq(widths[1]) ELSE 0
        borders_count == IF Len(borders_) > 0 THEN count_borders(borders_[1], styles_[1]) ELSE 0
    IN content_width + borders_count + margin_.left.size + margin_.right.size

----------------------------------------------------------------------------
(* The renderer.  A printed line is a sequence of characters; a writer that *)
(* can panic (an underflowing usize subtraction) returns an Option.         *)

OptChar(o) == IF IsSome(o) THEN <<Unwrap(o)>> ELSE <<>>

repeat_char(c, n) == Repeat(c, n)

\* AlignmentHorizontal::align
align(alignment, text, width) ==
    LET diff == width - line_width(text)
    IN IF diff < 0 THEN None
       ELSE CASE alignment = "Left" -> Some(text \o Repeat(" ", diff))
              [] alignment = "Right" -> Some(Repeat(" ", diff) \o text)
              [] alignment = "Center" ->
                    Some(Repeat(" ", diff \div 2) \o text \o Repeat(" ", diff - (diff \div 2)))

\* an alignment that places every line by its own width
align_each_line(alignment, text, width, max_text_width) == align(alignment, text, width)

align_with_max_width(alignment, text, width, max_text_width) ==
    LET max_diff == width - max_text_width
        diff == width - line_width(text)
    IN IF max_diff < 0 \/ diff < 0 THEN None
       ELSE CASE alignment = "Left" -> Some(text \o Repeat(" ", diff))
              [] alignment = "Right" ->
                    IF diff - max_diff < 0 THEN None
                    ELSE Some(Repeat(" ", max_diff) \o text \o Repeat(" ", diff - max_diff))
              [] alignment = "Center" ->
                    IF diff - (max_diff \div 2) < 0 THEN None
                    ELSE Some(Repeat(" ", max_diff \div 2) \o text
                                \o Repeat(" ", diff - (max_diff \div 2)))

\* fn line
line_plain(text, width, style) ==
    LET inner == width - style.padding.left.size - style.padding.right.size
        aligned == IF inner < 0 THEN None ELSE align(style.alignment_h, text, inner)
    IN IF ~IsSome(aligned) THEN None
       ELSE Some(repeat_char(style.padding.left.fill, style.padding.left.size)
                    \o Unwrap(aligned)
                    \o repeat_char(style.padding.right.fill, style.padding.right.size))

line_with_width(text, width, width_text, style) ==
    LET inner == width - style.padding.left.size - style.padding.right.size
        aligned == IF inner < 0 THEN None
                   ELSE align_with_max_width(style.alignment_h, text, inner, width_text)
    IN IF ~IsSome(aligned) THEN None
       ELSE Some(repeat_char(style.padding.left.fill, style.padding.left.size)
                    \o Unwrap(aligned)
                    \o repeat_char(style.padding.right.fill, style.padding.right.size))

IsBlank(l) == Trim(l) = <<>>

RECURSIVE SkipBlankStart(_)
SkipBlankStart(cell) ==
    IF cell # <<>> /\ IsBlank(Head(cell)) THEN SkipBlankStart(Tail(cell)) ELSE cell

RECURSIVE SkipBlankEnd(_)
SkipBlankEnd(cell) ==
    IF cell # <<>> /\ IsBlank(cell[Len(cell)])
    THEN SkipBlankEnd(SubSeq(cell, 1, Len(cell) - 1)) ELSE cell

skip_empty_lines(cell) == SkipBlankEnd(SkipBlankStart(cell))

\* AlignmentVertical::top_ident
top_ident(alignment, height, real_height) ==
    CASE alignment = "Top" -> Some(0)
      [] alignment = "Bottom" ->
            IF height - real_height < 0 THEN None ELSE Some(height - real_height)
      [] alignment = "Center" ->
            IF height - real_height < 0 THEN None ELSE Some((height - real_height) \div 2)

top_indent(cell, style, height) ==
    LET h == height - style.padding.top.size
        indent == IF h < 0 THEN None ELSE top_ident(style.alignment_v, h, Len(cell))
    IN IF ~IsSome(indent) THEN None ELSE Some(Unwrap(indent) + style.padding.top.size)

build_line_cell(line_index, cell0, style, width, height) ==
    LET cell == IF style.formatting.vertical_trim THEN skip_empty_lines(cell0) ELSE cell0
        indent == top_indent(cell, style, height)
    IN IF ~IsSome(indent) THEN None
       ELSE IF Unwrap(indent) > line_index THEN Some(repeat_char(style.padding.top.fill, width))
       ELSE LET cell_line_index == line_index - Unwrap(indent)
            IN IF ~(Len(cell) > cell_line_index)
               THEN Some(repeat_char(style.padding.bottom.fill, width))
               ELSE LET raw == cell[cell_line_index + 1]
                        text == IF style.formatting.horizontal_trim THEN Trim(raw) ELSE raw
                        max_line_width ==
                            MaxSeq([i \in 1 .. Len(cell) |->
                                line_width(IF style.formatting.horizontal_trim
                                           THEN Trim(cell[i]) ELSE cell[i])])
                    IN IF style.formatting.allow_lines_alignement
                       THEN line_plain(text, width, style)
                       ELSE line_with_width(text, width, max_line_width, style)

\* the part of build_line between the margins, columns col.. of the row
RECURSIVE BuildLineFrom(_, _, _, _, _, _, _, _)
BuildLineFrom(col, row_borders, row_styles, row_cells, row_widths, height, count, line_index) ==
    IF col >= count THEN Some(<<>>)
    ELSE LET here == IF is_cell_visible(row_styles, col)
                     THEN LET cl == build_line_cell(line_index, row_cells[col + 1],
                                        row_styles[col + 1], row_widths[col + 1], height)
                          IN IF IsSome(cl)
                             THEN Some(OptChar(row_borders[col + 1].connector1) \o Unwrap(cl))
                             ELSE None
                     ELSE Some(<<>>)
             closing == IF col + 1 = count THEN OptChar(row_borders[col + 1].connector2) ELSE <<>>
             rest == BuildLineFrom(col + 1, row_borders, row_styles, row_cells, row_widths,
                                   height, count, line_index)
         IN IF IsSome(here) /\ IsSome(rest)
            THEN Some(Unwrap(here) \o closing \o Unwrap(rest)) ELSE None

build_line(row_borders, row_styles, row_cells, row_widths, height, count, line_index, margin_) ==
    LET body == BuildLineFrom(0, row_borders, row_styles, row_cells, row_widths, height,
                              count, line_index)
    IN IF ~IsSome(body) THEN None
       ELSE Some(repeat_char(margin_.left.fill, margin_.left.size) \o Unwrap(body)
                    \o repeat_char(margin_.right.fill, margin_.right.size))

split_line_width(widths_, row_borders) ==
    SumSeq(widths_)
      + (IF Len(row_borders) > 0 /\ IsSome(row_borders[1].connector1) THEN 1 ELSE 0)
      + Cardinality({i \in 1 .. Len(row_borders) : IsSome(row_borders[i].connector2)})

\* returns <<what is written, the limit left>>
write_or_skip(c, width, limit) ==
    IF limit >= width THEN <<(<<>>), limit - width>>
    ELSE <<repeat_char(c, width - limit), 0>>

\* a write that ignores the limit: the whole string is written
write_without_limit(str, limit) == <<str, Len(str)>>

\* returns <<what is written, how many characters that is>>
write_with_limit(str, limit) ==
    <<SubSeq(str, 1, Min2(Len(str), limit)), Min2(Len(str), limit)>>

\* the pieces build_split_line writes, in order: <<character, width>>
SplitLinePieces(widths_, row_borders) ==
    (IF IsSome(row_borders[1].connector1)
     THEN << <<Unwrap(row_borders[1].connector1), 1>> >> ELSE <<>>)
    \o Concat([i \in 1 .. Len(widths_) |->
            (IF IsSome(row_borders[i].main)
             THEN << <<Unwrap(row_borders[i].main), widths_[i]>> >> ELSE <<>>)
            \o (IF IsSome(row_borders[i].connector2)
                THEN << <<Unwrap(row_borders[i].connector2), 1>> >> ELSE <<>>)])

RECURSIVE WritePieces(_, _)
WritePieces(pieces, skip_chars) ==
    IF pieces = <<>> THEN <<>>
    ELSE LET w == write_or_skip(Head(pieces)[1], Head(pieces)[2], skip_chars)
         IN w[1] \o WritePieces(Tail(pieces), w[2])

NoBorder(row_borders) == \A i \in 1 .. Len(row_borders) : ~IsSome(row_borders[i].main)

build_split_line(widths_, row_borders, skip_chars) ==
    IF NoBorder(row_borders) \/ widths_ = <<>> THEN <<>>
    ELSE WritePieces(SplitLinePieces(widths_, row_borders), skip_chars)

build_split_line_with_override(widths_, row_borders, override_str) ==
    LET written == IF IsSome(override_str)
                   THEN write_with_limit(Unwrap(override_str), split_line_width(widths_, row_borders))
                   ELSE <<(<<>>), 0>>
    IN written[1] \o build_split_line(widths_, row_borders, written[2])

\* a build_split_line_ that also prints a boundary for which only an override
\* string is registered
SplitLineOfOverride(widths_, g, row) ==
    LET row_borders == get_row(g.borders, row)
        override_str == IF HasKey(g.override_split_lines, row)
                        THEN Some(g.override_split_lines[row]) ELSE None
    IN IF (NoBorder(row_borders) /\ ~IsSome(override_str)) \/ widths_ = <<>> THEN <<>>
       ELSE << repeat_char(g.margin.left.fill, g.margin.left.size)
               \o (IF NoBorder(row_borders) THEN Unwrap(override_str)
                   ELSE build_split_line_with_override(widths_, row_borders, override_str))
               \o repeat_char(g.margin.right.fill, g.margin.right.size) >>

\* build_split_line_: the lines printed for row boundary `row`, none or one
SplitLineOf(widths_, g, row) ==
    LET row_borders == get_row(g.borders, row)
        override_str == IF HasKey(g.override_split_lines, row)
                        THEN Some(g.override_split_lines[row]) ELSE None
    IN IF NoBorder(row_borders) \/ widths_ = <<>> THEN <<>>
       ELSE << repeat_char(g.margin.left.fill, g.margin.left.size)
               \o build_split_line_with_override(widths_, row_borders, override_str)
               \o repeat_char(g.margin.right.fill, g.margin.right.size) >>

\* build_row_cells: the content lines of one row, or None
build_row_cells(row_cells, row_styles, row_widths, height, row_borders, margin_) ==
    LET ls == [l \in 1 .. height |->
                build_line(row_borders, row_styles, row_cells, row_widths, height,
                           Len(row_cells), l - 1, margin_)]
    IN IF \A l \in 1 .. height : IsSome(ls[l])
       THEN Some([l \in 1 .. height |-> Unwrap(ls[l])]) ELSE None

\* build_row: what is printed for row `row`: the split line above it (first
\* row only), its content lines (None on a panic) and the split line below
BuildRowParts(row_cells, row_styles, row_widths, normal_widths, height, g, row) ==
    [above |-> IF row = 0 THEN SplitLineOf(normal_widths, g, row) ELSE <<>>,
     content |-> build_row_cells(row_cells, row_styles, row_widths, height,
                                 get_inner_row(g.borders, row), g.margin),
     below |-> SplitLineOf(normal_widths, g, row + 1)]

RowLines(parts) ==
    IF ~IsSome(parts.content) THEN None
    ELSE Some(parts.above \o Unwrap(parts.content) \o parts.below)

build_row(row_cells, row_styles, row_widths, normal_widths, height, g, row) ==
    RowLines(BuildRowParts(row_cells, row_styles, row_widths, normal_widths, height, g, row))

\* the margin bands around the rows, or None when a row panicked
GridLines(built, g, total) ==
    IF \A r \in 1 .. Len(built) : IsSome(built[r])
    THEN Some([i \in 1 .. g.margin.top.size |-> repeat_char(g.margin.top.fill, total)]
                \o Concat([r \in 1 .. Len(built) |-> Unwrap(built[r])])
                \o [i \in 1 .. g.margin.bottom.size |-> repeat_char(g.margin.bottom.fill, total)])
    ELSE None

print_grid(rows, cells_, styles_, widths, normal_widths, row_heights, g, total) ==
    GridLines([r \in 1 .. rows |->
                build_row(cells_[r], styles_[r], widths[r], normal_widths,
                          row_heights[r], g, r - 1)],
              g, total)

collect_cells(g) ==
    [r \in 1 .. count_rows(g) |-> [c \in 1 .. count_columns(g) |->
        Lines(replace_tab(g.cells[r][c], GridStyle(g, Cell(r - 1, c - 1)).formatting.tab_width))]]

collect_styles(g) ==
    fix_styles([r \in 1 .. count_rows(g) |-> [c \in 1 .. count_columns(g) |->
        GridStyle(g, Cell(r - 1, c - 1))]])

InnerBorders(g) == [r \in 1 .. count_rows(g) |-> get_inner_row(g.borders, r - 1)]

\* the locals of Display::fmt once the geometry is resolved
LayoutResolved(g, styles_, cells_, borders_, widths) ==
    [styles |-> styles_, cells |-> cells_, borders |-> borders_, widths |-> widths,
     row_heights |-> rows_height(cells_, styles_, count_rows(g), count_columns(g)),
     normal_widths |-> normalized_width(widths, styles_, count_rows(g), count_columns(g)),
     total_width |-> total_width(widths, styles_, borders_, g.margin)]

LayoutFixed(g, fixed) ==
    LayoutResolved(g, fixed[1], fixed[2], InnerBorders(g),
        columns_width(fixed[2], fixed[1], InnerBorders(g), count_rows(g), count_columns(g)))

Layout(g) == LayoutFixed(g, fix_spans(collect_styles(g), collect_cells(g)))

PrintLayout(g, l) ==
    IF ~IsSome(l.normal_widths) THEN None
    ELSE print_grid(count_rows(g), l.cells, l.styles, l.widths, Unwrap(l.normal_widths),
                    l.row_heights, g, l.total_width)

\* impl Display for Grid: the printed lines, or None when the pass panics
Render(g) ==
    IF count_rows(g) = 0 \/ count_columns(g) = 0 THEN Some(<<>>)
    ELSE PrintLayout(g, Layout(g))

\* Grid::total_width
GridTotalWidth(g) ==
    IF count_rows(g) = 0 \/ count_columns(g) = 0 THEN 0 ELSE Layout(g).total_width

----------------------------------------------------------------------------
(* Settings::border_restriction, Grid::get_settings, Grid::set_cell_borders *)
(* and Grid::extract.                                                       *)

\* a border_restriction that stores the flag without negating it
SettingsBorderRestrictionKept(s, strict) == [s EXCEPT !.border_split_check = strict]

SettingsBorderRestriction(s, strict) == [s EXCEPT !.border_split_check = ~strict]

get_settings(g, row, column) ==
    LET style == GridStyle(g, Cell(row, column))
        content == g.cells[row + 1][column + 1]
        border == BordersGetBorder(g.borders, row, column)
    IN SettingsBorder(
         SettingsPadding(
           SettingsSpan(
             SettingsVerticalAlignment(
               SettingsAlignment(SettingsText(SettingsNew, content), style.alignment_h),
               style.alignment_v),
             style.span),
           style.padding.left, style.padding.right, style.padding.top, style.padding.bottom),
         border)

RECURSIVE SetCells(_, _, _)
SetCells(g, cs, border) ==
    IF cs = <<>> THEN Done(g)
    ELSE LET r == GridSet(g, Cell(Head(cs)[1], Head(cs)[2]), SettingsBorder(SettingsNew, border))
         IN IF r.ok THEN SetCells(r.g, Tail(cs), border) ELSE r

\* the cells of the rectangle, row by row
RowMajor(start_row, end_row, start_column, end_column) ==
    LET w == end_column - start_column
    IN [i \in 1 .. (end_row - start_row) * w |->
            <<start_row + ((i - 1) \div w), start_column + ((i - 1) % w)>>]

set_cell_borders(g, border) ==
    LET r == add_grid_split(g)
    IN IF r.ok THEN SetCells(r.g, RowMajor(0, count_rows(g), 0, count_columns(g)), border) ELSE r

RECURSIVE ExtractCells(_, _, _, _, _)
ExtractCells(new_grid, g, cs, start_row, start_column) ==
    IF cs = <<>> THEN Done(new_grid)
    ELSE LET row == Head(cs)[1]
             column == Head(cs)[2]
             r == GridSet(new_grid, Cell(row - start_row, column - start_column),
                          SettingsBorderRestriction(get_settings(g, row, column), FALSE))
         IN IF r.ok THEN ExtractCells(r.g, g, Tail(cs), start_row, start_column) ELSE r

\* Grid::extract on the ranges start_row..end_row and start_column..end_column
extract(g, start_row, end_row, start_column, end_column) ==
    ExtractCells(GridNew(end_row - start_row, end_column - start_column), g,
                 RowMajor(start_row, end_row, start_column, end_column), start_row, start_column)

----------------------------------------------------------------------------
(* The inputs the operations are called with.                               *)

GridSizes == {<<1, 2>>}

Entities(sz) ==
    {Global} \cup {Row(r) : r \in Range0(0, sz[1])} \cup {Column(c) : c \in Range0(0, sz[2])}
        \cup {Cell(r, c) : r \in Range0(0, sz[1]), c \in Range0(0, sz[2])}

TextA == <<"a">>

TextTwoLines == <<"a", "b", NL, "c">>

Texts == {TextA, TextTwoLines}

BorderChoices ==
    {BorderFilled("#"),
     [BorderDefault EXCEPT !.left = Some("#")],
     [BorderDefault EXCEPT !.top = Some("#"), !.right_top_corner = Some("#")]}

FormattingTrim == [FormattingDefault EXCEPT !.horizontal_trim = TRUE]

StyleSettings ==
    {SettingsText(SettingsNew, t) : t \in Texts}
        \cup {SettingsSpan(SettingsNew, n) : n \in 0 .. MaxSpan}
        \cup {SettingsPadding(SettingsNew, Indent(1, " "), IndentDefault, Indent(1, " "), IndentDefault),
              SettingsAlignment(SettingsNew, "Right"),
              SettingsFormatting(SettingsNew, FormattingTrim)}

BorderSettings ==
    {SettingsBorder(SettingsNew, b) : b \in BorderChoices}
        \cup {SettingsBorderRestriction(SettingsBorder(SettingsNew, b), FALSE) : b \in BorderChoices}

MarginChoices == {[MarginDefault EXCEPT !.left = Indent(1, ">")]}

OverrideChoices == {<<"x", "y">>}

----------------------------------------------------------------------------
(* The grid as a state machine: one action per public operation.            *)

\* the grid the variables hold
G ==
    [size |-> size, cells |-> cells, styles |-> styles, margin |-> margin, borders |-> borders,
     override_split_lines |-> override_split_lines]

Become(g) ==
    /\ size' = g.size
    /\ cells' = g.cells
    /\ styles' = g.styles
    /\ margin' = g.margin
    /\ borders' = g.borders
    /\ override_split_lines' = g.override_split_lines

\* the variables hold grid g
Holds(g) ==
    /\ size = g.size
    /\ cells = g.cells
    /\ styles = g.styles
    /\ margin = g.margin
    /\ borders = g.borders
    /\ override_split_lines = g.override_split_lines

Idle == [phase |-> "none"]

\* a call can be made: the program has not panicked, no render pass is under
\* way and, where calls are counted, fewer than MaxOps were made
Callable(counted) == status = "ok" /\ pc = "idle" /\ (counted => nops < MaxOps)

Count(counted) == nops' = IF counted THEN nops + 1 ELSE nops

\* the call returns (status "ok") or unwinds with a panic
Finish(res, counted) ==
    /\ Become(res.g)
    /\ status' = IF res.ok THEN "ok" ELSE "panic"
    /\ Count(counted)
    /\ UNCHANGED <<pc, wk>>

Init ==
    /\ \E sz \in GridSizes : Holds(GridNew(sz[1], sz[2]))
    /\ status = "ok"
    /\ last = [op |-> "new"]
    /\ nops = 0
    /\ pc = "idle"
    /\ wk = Idle

\* Grid::set
SetCall(counted, choices) ==
    /\ Callable(counted)
    /\ \E entity \in Entities(size), settings \in choices :
        LET res == GridSet(G, entity, settings)
        IN /\ Finish(res, counted)
           /\ last' = [op |-> "set", entity |-> entity, settings |-> settings, ok |-> res.ok]

\* Grid::add_horizontal_split
AddHorizontalSplitCall(counted) ==
    /\ Callable(counted)
    /\ \E row \in 0 .. size[1] :
        /\ Finish(add_horizontal_split(G, row), counted)
        /\ last' = [op |-> "add_horizontal_split", index |-> row,
                    was_present |-> is_there_horizontal(borders, row),
                    was_styled |-> /\ is_there_horizontal(borders, row)
                                   /\ \E i \in 1 .. size[2] :
                                        borders.horizontal[row][i] # DEFAULT_SPLIT_BORDER_CHAR]

\* Grid::add_vertical_split
AddVerticalSplitCall(counted) ==
    /\ Callable(counted)
    /\ \E column \in 0 .. size[2] :
        /\ Finish(add_vertical_split(G, column), counted)
        /\ last' = [op |-> "add_vertical_split", index |-> column,
                    was_present |-> is_there_vertical(borders, column),
                    was_styled |-> /\ is_there_vertical(borders, column)
                                   /\ \E i \in 1 .. size[1] :
                                        borders.vertical[column][i] # DEFAULT_SPLIT_BORDER_CHAR]

\* Grid::add_grid_split
AddGridSplitCall(counted) ==
    /\ Callable(counted)
    /\ Finish(add_grid_split(G), counted)
    /\ last' = [op |-> "add_grid_split"]

\* Grid::set_cell_borders
SetCellBordersCall(counted, border) ==
    /\ Callable(counted)
    /\ Finish(set_cell_borders(G, border), counted)
    /\ last' = [op |-> "set_cell_borders"]

\* Grid::clear_split_grid
ClearSplitGridCall(counted) ==
    /\ Callable(counted)
    /\ Finish(Done(clear_split_grid(G)), counted)
    /\ last' = [op |-> "clear_split_grid",
                was_split |-> DOMAIN borders.horizontal # {} /\ DOMAIN borders.vertical # {}]

\* Grid::margin
SetMarginCall(counted) ==
    /\ Callable(counted)
    /\ \E m \in MarginChoices :
        /\ Finish(Done([G EXCEPT !.margin = m]), counted)
        /\ last' = [op |-> "margin"]

\* Grid::override_split_line
OverrideSplitLineCall(counted) ==
    /\ Callable(counted)
    /\ \E row \in 0 .. size[1], str \in OverrideChoices :
        /\ Finish(Done([G EXCEPT !.override_split_lines = Insert(@, row, str)]), counted)
        /\ last' = [op |-> "override_split_line", index |-> row]

\* Grid::extract: the grid itself is left alone, the new grid is returned
ExtractCall(counted) ==
    /\ Callable(counted)
    /\ \E start_row \in Range0(0, size[1]), start_column \in Range0(0, size[2]) :
       \E end_row \in (start_row + 1) .. size[1], end_column \in (start_column + 1) .. size[2] :
        LET res == extract(G, start_row, end_row, start_column, end_column)
        IN /\ last' = [op |-> "extract",
                       rows |-> <<start_row, end_row>>, columns |-> <<start_column, end_column>>,
                       ok |-> res.ok, result |-> res.g]
           /\ status' = IF res.ok THEN "ok" ELSE "panic"
    /\ Count(counted)
    /\ UNCHANGED <<gridVars, pc, wk>>

\* a render that stores the repaired styles in the grid it prints
DisplayCallStoringRepair(counted) ==
    /\ Callable(counted)
    /\ \E out \in {Render(G)} :
          /\ last' = [op |-> "render", ok |-> IsSome(out),
                      result |-> IF IsSome(out) THEN Unwrap(out) ELSE <<>>]
          /\ status' = IF IsSome(out) THEN "ok" ELSE "panic"
    /\ Count(counted)
    /\ styles' = [e \in DOMAIN styles \cup {e \in Entities(size) : e.kind = "Cell"} |->
                    IF e.kind = "Cell"
                    THEN fix_spans(collect_styles(G), collect_cells(G))[1][e.row + 1][e.col + 1]
                    ELSE styles[e]]
    /\ UNCHANGED <<size, cells, margin, borders, override_split_lines, pc, wk>>

\* Display::fmt, as one call
DisplayCall(counted) ==
    /\ Callable(counted)
    /\ \E out \in {Render(G)} :
          /\ last' = [op |-> "render", ok |-> IsSome(out),
                      result |-> IF IsSome(out) THEN Unwrap(out) ELSE <<>>]
          /\ status' = IF IsSome(out) THEN "ok" ELSE "panic"
    /\ Count(counted)
    /\ UNCHANGED <<gridVars, pc, wk>>

\* Grid::total_width
TotalWidthCall(counted) ==
    /\ Callable(counted)
    /\ last' = [op |-> "total_width", result |-> GridTotalWidth(G)]
    /\ Count(counted)
    /\ UNCHANGED <<gridVars, status, pc, wk>>

(* Spec: every operation, at most MaxOps calls.                             *)

Set == SetCall(TRUE, StyleSettings \cup BorderSettings)

AddHorizontalSplit == AddHorizontalSplitCall(TRUE)

AddVerticalSplit == AddVerticalSplitCall(TRUE)

AddGridSplit == AddGridSplitCall(TRUE)

SetCellBorders == SetCellBordersCall(TRUE, DEFAULT_CELL_STYLE)

ClearSplitGrid == ClearSplitGridCall(TRUE)

SetMargin == SetMarginCall(TRUE)

OverrideSplitLine == OverrideSplitLineCall(TRUE)

Extract == ExtractCall(TRUE)

Display == DisplayCall(TRUE)

TotalWidth == TotalWidthCall(TRUE)

Next ==
    \/ Set
    \/ AddHorizontalSplit
    \/ AddVerticalSplit
    \/ AddGridSplit
    \/ SetCellBorders
    \/ ClearSplitGrid
    \/ SetMargin
    \/ OverrideSplitLine
    \/ Extract
    \/ Display
    \/ TotalWidth

Spec == Init /\ [][Next]_vars

(* SpecBorders: the operations on the border store, any number of calls.    *)

BordersSet == SetCall(FALSE, BorderSettings)

BordersAddHorizontalSplit == AddHorizontalSplitCall(FALSE)

BordersAddVerticalSplit == AddVerticalSplitCall(FALSE)

BordersAddGridSplit == AddGridSplitCall(FALSE)

BordersSetCellBorders == SetCellBordersCall(FALSE, BorderFilled("#"))

BordersClearSplitGrid == ClearSplitGridCall(FALSE)

BordersExtract == ExtractCall(FALSE)

NextBorders ==
    \/ BordersSet
    \/ BordersAddHorizontalSplit
    \/ BordersAddVerticalSplit
    \/ BordersAddGridSplit
    \/ BordersSetCellBorders
    \/ BordersClearSplitGrid
    \/ BordersExtract

SpecBorders == Init /\ [][NextBorders]_vars

----------------------------------------------------------------------------
(* SpecLayout: one render pass, step by step, over a family of 3x3 grids.   *)
(* pc names the statement of Display::fmt that runs next, wk holds its      *)
(* locals.                                                                  *)

MaxText == 2

LayoutSize == <<3, 3>>

TextOf(n) == [i \in 1 .. n |-> "a"]

\* the spans of one row: the first cell spans k columns, or the second two
RowSpans ==
    {[c \in 1 .. LayoutSize[2] |-> IF c = 1 THEN k ELSE 1] : k \in 1 .. Min2(MaxSpan, LayoutSize[2])}
        \cup {[c \in 1 .. LayoutSize[2] |-> IF c = 2 THEN 2 ELSE 1]}

SpanLayouts == [1 .. LayoutSize[1] -> RowSpans]

\* the text lengths of the grid: all empty, one character everywhere, or
\* MaxText characters (set with a left padding) in the first row only
TextLayouts ==
    {[r \in 1 .. LayoutSize[1] |-> [c \in 1 .. LayoutSize[2] |-> 0]],
     [r \in 1 .. LayoutSize[1] |-> [c \in 1 .. LayoutSize[2] |-> 1]],
     [r \in 1 .. LayoutSize[1] |-> [c \in 1 .. LayoutSize[2] |->
        IF r = 1 THEN MaxText ELSE 0]]}

SplitLayouts == {"none", "grid", "column"}

RECURSIVE SetLayoutCells(_, _, _, _)
SetLayoutCells(g, cs, spans, texts) ==
    IF cs = <<>> THEN g
    ELSE LET r == Head(cs)[1]
             c == Head(cs)[2]
             n == texts[r + 1][c + 1]
             base == SettingsSpan(SettingsText(SettingsNew, TextOf(n)), spans[r + 1][c + 1])
             settings == IF n = MaxText
                         THEN SettingsPadding(base, Indent(1, " "), IndentDefault,
                                              IndentDefault, IndentDefault)
                         ELSE base
         IN CHOOSE done \in {SetLayoutCells(next, Tail(cs), spans, texts) :
                                next \in {GridSet(g, Cell(r, c), settings).g}} : TRUE

\* the grid a program builds with Grid::new, one set per cell and the split
\* calls
LayoutGrid(spans, texts, splits) ==
    LET g == SetLayoutCells(GridNew(LayoutSize[1], LayoutSize[2]),
                            RowMajor(0, LayoutSize[1], 0, LayoutSize[2]), spans, texts)
    IN IF splits = "grid" THEN add_grid_split(g).g
       ELSE IF splits = "column" THEN add_vertical_split(g, 1).g
       ELSE g

InitLayout ==
    /\ \E spans \in SpanLayouts, texts \in TextLayouts, splits \in SplitLayouts :
            Holds(LayoutGrid(spans, texts, splits))
    /\ status = "ok"
    /\ last = [op |-> "new"]
    /\ nops = 0
    /\ pc = "idle"
    /\ wk = Idle

Step(next, w) ==
    /\ pc' = next
    /\ wk' = w
    /\ UNCHANGED <<gridVars, status, last, nops>>

\* the pass unwinds with a panic
RenderPanics ==
    /\ pc' = "idle"
    /\ status' = "panic"
    /\ last' = [op |-> "render", ok |-> FALSE, result |-> <<>>]
    /\ UNCHANGED <<gridVars, nops, wk>>

\* Display::fmt: collect_cells and collect_styles
RenderCollect ==
    /\ pc = "idle" /\ status = "ok" /\ last.op = "new"
    /\ count_rows(G) # 0 /\ count_columns(G) # 0
    /\ Step("fix_spans",
            [cells |-> collect_cells(G), styles |-> collect_styles(G), borders |-> <<>>,
             row_heights |-> <<>>, widths |-> <<>>, spans |-> <<>>, ranges |-> <<>>,
             again |-> FALSE, max |-> [row |-> 0, width |-> 0], reran |-> FALSE,
             copied |-> FALSE,
             normal_widths |-> <<>>, total_width |-> 0, printed |-> <<>>])

\* Display::fmt: fix_spans and the inner split lines
RenderFixSpans ==
    /\ pc = "fix_spans"
    /\ LET fixed == fix_spans(wk.styles, wk.cells)
       IN Step("rows_height",
               [wk EXCEPT !.styles = fixed[1], !.cells = fixed[2], !.borders = InnerBorders(G)])

\* Display::fmt: rows_height
RenderRowsHeight ==
    /\ pc = "rows_height"
    /\ Step("columns_width",
            [wk EXCEPT !.row_heights = rows_height(wk.cells, wk.styles, size[1], size[2])])

\* what columns_width and adjust_width do next: the next range of the
\* pass, the re-check pass over the same ranges, or the next span value
RECURSIVE Advance(_)
Advance(w) ==
    IF w.spans = <<>> \/ w.ranges # <<>> THEN w
    ELSE IF ~w.again
    THEN Advance([w EXCEPT !.again = TRUE, !.ranges = SpanRanges(size[2], Head(w.spans))])
    ELSE IF Tail(w.spans) = <<>> THEN [w EXCEPT !.spans = <<>>]
    ELSE Advance([w EXCEPT !.spans = Tail(@), !.again = FALSE,
                           !.ranges = SpanRanges(size[2], Head(Tail(w.spans)))])

PcOf(w) ==
    IF w.spans = <<>> THEN "normalized_width"
    ELSE IF w.again THEN "is_range_complete" ELSE "adjust_range_width"

\* columns_width: the seed and the set of span values
RenderSeedWidths ==
    /\ pc = "columns_width"
    /\ LET spans == SpanValues(wk.styles)
           w == Advance([wk EXCEPT
                    !.widths = SeedWidths(wk.cells, wk.styles, size[1], size[2]),
                    !.spans = spans,
                    !.ranges = IF spans = <<>> THEN <<>> ELSE SpanRanges(size[2], Head(spans))])
       IN Step(PcOf(w), w)

\* adjust_range_width on the next range: the widest row and the increase
RenderIncreaseWidths ==
    /\ pc = "adjust_range_width"
    /\ LET start_column == Head(wk.ranges)[1]
           end_column == Head(wk.ranges)[2]
           max == RangeMax(wk.widths, wk.styles, wk.borders, size[1], start_column, end_column)
       IN IF max.width = 0
          THEN LET w == Advance([wk EXCEPT !.ranges = Tail(@)])
               IN Step(PcOf(w), w)
          ELSE Step("copy_widths",
                    [wk EXCEPT !.max = max,
                               !.widths = IncreaseWidths(wk.widths, wk.styles, wk.borders, size[1],
                                            start_column, end_column, max.row, max.width)])

\* adjust_range_width on the same range: the rows with out-of-scope cells
RenderCopyWidths ==
    /\ pc = "copy_widths"
    /\ \E widths \in {CopyWidths(wk.widths, wk.styles, size[1],
                                  Head(wk.ranges)[1], Head(wk.ranges)[2], wk.max.row)} :
        LET w == Advance([wk EXCEPT !.widths = widths,
                                    !.copied = @ \/ widths # wk.widths,
                                    !.ranges = Tail(@)])
        IN Step(PcOf(w), w)

\* adjust_width, second loop: a range that is not complete is adjusted again
RenderRecheckRange ==
    /\ pc = "is_range_complete"
    /\ IF is_range_complete(wk.styles, wk.widths, wk.borders, size[1],
                            Head(wk.ranges)[1], Head(wk.ranges)[2])
       THEN LET w == Advance([wk EXCEPT !.ranges = Tail(@)])
            IN Step(PcOf(w), w)
       ELSE Step("adjust_range_width", [wk EXCEPT !.reran = TRUE])

\* Display::fmt: normalized_width
RenderNormalizedWidth ==
    /\ pc = "normalized_width"
    /\ LET v == normalized_width(wk.widths, wk.styles, size[1], size[2])
       IN IF IsSome(v)
          THEN Step("total_width", [wk EXCEPT !.normal_widths = Unwrap(v)])
          ELSE RenderPanics

\* Display::fmt: total_width
RenderTotalWidth ==
    /\ pc = "total_width"
    /\ Step("build_row",
            [wk EXCEPT !.total_width = total_width(wk.widths, wk.styles, wk.borders, margin)])

\* the lines Display::fmt has written when every row is built
Written(printed) ==
    [i \in 1 .. margin.top.size |-> repeat_char(margin.top.fill, wk.total_width)]
        \o Concat([r \in 1 .. Len(printed) |->
                    printed[r].above \o Unwrap(printed[r].content) \o printed[r].below])
        \o [i \in 1 .. margin.bottom.size |-> repeat_char(margin.bottom.fill, wk.total_width)]

\* print_grid: build_row on the next row; after the last row the call returns
RenderBuildRow ==
    /\ pc = "build_row"
    /\ LET r == Len(wk.printed) + 1
           parts == BuildRowParts(wk.cells[r], wk.styles[r], wk.widths[r], wk.normal_widths,
                                  wk.row_heights[r], G, r - 1)
           printed == Append(wk.printed, parts)
       IN IF ~IsSome(parts.content) THEN RenderPanics
          ELSE IF r < size[1] THEN Step("build_row", [wk EXCEPT !.printed = printed])
          ELSE /\ pc' = "done"
               /\ wk' = [wk EXCEPT !.printed = printed]
               /\ last' = [op |-> "render", ok |-> TRUE, result |-> Written(printed)]
               /\ UNCHANGED <<gridVars, status, nops>>

NextLayout ==
    \/ RenderCollect
    \/ RenderFixSpans
    \/ RenderRowsHeight
    \/ RenderSeedWidths
    \/ RenderIncreaseWidths
    \/ RenderCopyWidths
    \/ RenderRecheckRange
    \/ RenderNormalizedWidth
    \/ RenderTotalWidth
    \/ RenderBuildRow

SpecLayout == InitLayout /\ [][NextLayout]_vars

\* the pass has resolved the widths: columns_width has returned
WidthsResolved == pc \in {"normalized_width", "total_width", "build_row", "done"}

\* the pass has seeded the widths, so wk.widths is the matrix being resolved
WidthsSeeded ==
    pc \in {"adjust_range_width", "copy_widths", "is_range_complete"} \/ WidthsResolved

\* the rows that are in scope for the range [c, c + k)
InScopeRows(c, k) ==
    {r \in 1 .. size[1] : ~is_there_out_of_scope_cell(wk.styles[r], c, c + k)}

RangeWidth(r, c, k) == row_width(wk.styles[r], wk.widths[r], wk.borders[r], c, c + k)

\* C1: after columns_width, for every nonzero span value k of the grid and
\* every column range [c, c+k) inside the grid, all rows in scope for the
\* range have the same total width over it.
C1_RangesEqual ==
    WidthsResolved =>
        \A i \in 1 .. Len(SpanValues(wk.styles)) :
            LET k == SpanValues(wk.styles)[i]
            IN \A c \in 0 .. size[2] - k :
                \A r, q \in InScopeRows(c, k) : RangeWidth(r, c, k) = RangeWidth(q, c, k)

\* the horizontal border lines that were printed
PrintedSplitLines ==
    UNION {{wk.printed[r].above[i] : i \in 1 .. Len(wk.printed[r].above)}
            \cup {wk.printed[r].below[i] : i \in 1 .. Len(wk.printed[r].below)} :
           r \in 1 .. Len(wk.printed)}

\* the content lines that were printed
PrintedContentLines ==
    UNION {{Unwrap(wk.printed[r].content)[i] : i \in 1 .. Len(Unwrap(wk.printed[r].content))} :
           r \in 1 .. Len(wk.printed)}

\* C2: in a rendered grid every printed content line of every row has the
\* character length of the printed horizontal border lines.
C2_ContentAsLongAsBorder ==
    pc = "done" =>
        \A l \in PrintedContentLines, b \in PrintedSplitLines : Len(l) = Len(b)

\* C3: the width total_width computes (row 0's cell widths, its counted
\* vertical borders and the left and right margin sizes) is the character
\* length of every printed content line, margin fill included.
C3_TotalWidthIsLineLength ==
    pc = "done" => \A l \in PrintedContentLines : Len(l) = wk.total_width

\* C4: from the seed to the end of width resolution, after every increase,
\* every out-of-scope copy and every corrective re-run, a visible cell of
\* span 1 is at least as wide as its content plus its left and right padding.
C4_UnspannedCellFits ==
    WidthsSeeded =>
        \A r \in 1 .. size[1], c \in 1 .. size[2] :
            (is_cell_visible(wk.styles[r], c - 1) /\ wk.styles[r][c].span = 1)
                => wk.widths[r][c] >= cell_width(wk.cells[r][c], wk.styles[r][c])

\* C4 witness: resolution has finished after an out-of-scope copy changed a
\* width and a range was re-run, and the grid has a visible padded cell of
\* span 1 and another such cell that was widened beyond its content.
C4_Witness ==
    /\ WidthsResolved
    /\ wk.copied
    /\ wk.reran
    /\ \E r \in 1 .. size[1], c \in 1 .. size[2] :
            /\ is_cell_visible(wk.styles[r], c - 1) /\ wk.styles[r][c].span = 1
            /\ wk.styles[r][c].padding.left.size > 0
    /\ \E r \in 1 .. size[1], c \in 1 .. size[2] :
            /\ is_cell_visible(wk.styles[r], c - 1) /\ wk.styles[r][c].span = 1
            /\ wk.widths[r][c] > cell_width(wk.cells[r][c], wk.styles[r][c])

----------------------------------------------------------------------------
(* The border store (SpecBorders).                                          *)

\* C9: an intersection character is stored at boundary pair (r, c) only if a
\* horizontal split line at r and a vertical split line at c both exist.
C9_IntersectionOnlyAtCrossing ==
    \A p \in DOMAIN borders.intersections :
        is_there_horizontal(borders, p[1]) /\ is_there_vertical(borders, p[2])

\* C9 witness: a set call has stored intersections while some row boundary and
\* some column boundary are still unsplit.
C9_Witness ==
    /\ status = "ok"
    /\ last.op = "set"
    /\ DOMAIN borders.intersections # {}
    /\ \E r \in 0 .. size[1] : ~is_there_horizontal(borders, r)
    /\ \E c \in 0 .. size[2] : ~is_there_vertical(borders, c)

HorizontalKept(row) ==
    /\ borders'.horizontal[row] = borders.horizontal[row]
    /\ \A p \in DOMAIN borders.intersections :
            p[1] = row => borders'.intersections[p] = borders.intersections[p]

VerticalKept(column) ==
    /\ borders'.vertical[column] = borders.vertical[column]
    /\ \A p \in DOMAIN borders.intersections :
            p[2] = column => borders'.intersections[p] = borders.intersections[p]

\* C10 as claimed: add_horizontal_split(row) and add_vertical_split(col) on a
\* boundary that is already split leave its line characters and its
\* intersection characters unchanged.
C10_SplitTwiceKeeps ==
    [][/\ (last'.op = "add_horizontal_split" /\ last'.was_present) => HorizontalKept(last'.index)
       /\ (last'.op = "add_vertical_split" /\ last'.was_present) => VerticalKept(last'.index)]_vars

HorizontalReset(row) ==
    /\ is_there_horizontal(borders', row)
    /\ borders'.horizontal[row] = Repeat(DEFAULT_SPLIT_BORDER_CHAR, size[2])
    /\ \A c \in DOMAIN borders'.vertical :
            get_intersection_char(borders', <<row, c>>) = Some(DEFAULT_SPLIT_INTERSECTION_CHAR)
    /\ \A r \in DOMAIN borders.horizontal :
            r # row => borders'.horizontal[r] = borders.horizontal[r]
    /\ borders'.vertical = borders.vertical

VerticalReset(column) ==
    /\ is_there_vertical(borders', column)
    /\ borders'.vertical[column] = Repeat(DEFAULT_SPLIT_BORDER_CHAR, size[1])
    /\ \A r \in DOMAIN borders'.horizontal :
            get_intersection_char(borders', <<r, column>>) = Some(DEFAULT_SPLIT_INTERSECTION_CHAR)
    /\ \A c \in DOMAIN borders.vertical :
            c # column => borders'.vertical[c] = borders.vertical[c]
    /\ borders'.horizontal = borders.horizontal

\* C10 amended: add_horizontal_split(row) and add_vertical_split(col) always
\* materialize the boundary anew: after the call every line character of the
\* boundary and every intersection of it with a split line of the other
\* orientation is the default space, whether or not the boundary was split
\* before; the other split lines keep their line characters.
C10_SplitAlwaysResets ==
    [][/\ last'.op = "add_horizontal_split" => HorizontalReset(last'.index)
       /\ last'.op = "add_vertical_split" => VerticalReset(last'.index)]_vars

\* C10 witness: add_horizontal_split was called on a boundary that was split
\* and carried a character other than the default.
C10_Witness ==
    /\ status = "ok"
    /\ last.op = "add_horizontal_split"
    /\ last.was_styled

\* the split lines of the extracted grid are those the source has on the
\* boundaries of the extracted rectangle
ExtractedSplits ==
    /\ \A r \in 0 .. last.result.size[1] :
            is_there_horizontal(last.result.borders, r)
                <=> is_there_horizontal(borders, last.rows[1] + r)
    /\ \A c \in 0 .. last.result.size[2] :
            is_there_vertical(last.result.borders, c)
                <=> is_there_vertical(borders, last.columns[1] + c)

\* C8 as claimed: extract applies the copied settings in strict mode, so no
\* split line is auto-created in the extracted grid.
C8_ExtractStrict ==
    last.op = "extract" =>
        /\ DOMAIN last.result.borders.horizontal = {}
        /\ DOMAIN last.result.borders.vertical = {}

\* C8 amended: extract applies the copied cell settings with border
\* auto-creation enabled (border_restriction(false)), whatever the mode the
\* source grid was built in: it never fails on a missing split line, and the
\* extracted grid gets a split line exactly on the boundaries of the
\* extracted rectangle where the source grid has one.
C8_ExtractAutoCreates ==
    last.op = "extract" => last.ok /\ ExtractedSplits

\* C8 witness: an extract returned a grid in which split lines were created.
C8_Witness ==
    /\ last.op = "extract"
    /\ last.ok
    /\ DOMAIN last.result.borders.horizontal # {}
    /\ DOMAIN last.result.borders.vertical # {}

----------------------------------------------------------------------------
(* Spans, row heights and extraction (Spec).                                *)

\* the spans a render pass of grid g resolves (collect_styles, fix_spans)
ResolvedStyles(g) == fix_spans(collect_styles(g), collect_cells(g))[1]

SpansInside(g) ==
    \A r \in 1 .. g.size[1], c \in 1 .. g.size[2] :
        (c - 1) + ResolvedStyles(g)[r][c].span <= count_columns(g)

\* C6: after any sequence of construct, set and extract, every cell's
\* resolved span s at column c satisfies c + s <= column count, in the grid
\* and in every extracted grid.
C6_SpanInsideGrid ==
    /\ SpansInside(G)
    /\ (last.op = "extract" /\ last.ok) => SpansInside(last.result)

\* C5: a row in which every cell has span 0 has resolved height 1, whatever
\* the content and the top/bottom padding of its cells.
C5_ZeroSpanRowHeight ==
    status = "ok" =>
        LET l == Layout(G)
        IN \A r \in 1 .. size[1] :
            (\A c \in 1 .. size[2] : l.styles[r][c].span = 0) => l.row_heights[r] = 1

\* C7: rendering the grid extracted over the full range [0,rows) x [0,cols)
\* gives the same output as rendering the grid itself.
C7_ExtractFullRenders ==
    (/\ last.op = "extract"
     /\ last.ok
     /\ last.rows = <<0, size[1]>>
     /\ last.columns = <<0, size[2]>>) => Render(last.result) = Render(G)

\* C11: a set call carrying a border that fails on a missing split line
\* (strict mode) leaves every line character and every intersection character
\* of the grid as it was before the call.
C11_FailedBorderSetAtomic ==
    [][(last'.op = "set" /\ ~last'.ok /\ last'.settings.border_split_check = FALSE)
            => borders' = borders]_vars

\* a present side or corner of `border` around cell (row, column) lies on a
\* boundary that store b holds no split line for
TouchesUnsplit(b, row, column, border) ==
    \/ IsSome(border.left) /\ ~is_there_vertical(b, column)
    \/ IsSome(border.right) /\ ~is_there_vertical(b, column + 1)
    \/ IsSome(border.top) /\ ~is_there_horizontal(b, row)
    \/ IsSome(border.bottom) /\ ~is_there_horizontal(b, row + 1)
    \/ IsSome(border.left_top_corner)
        /\ ~(is_there_horizontal(b, row) /\ is_there_vertical(b, column))
    \/ IsSome(border.right_top_corner)
        /\ ~(is_there_horizontal(b, row) /\ is_there_vertical(b, column + 1))
    \/ IsSome(border.left_bottom_corner)
        /\ ~(is_there_horizontal(b, row + 1) /\ is_there_vertical(b, column))
    \/ IsSome(border.right_bottom_corner)
        /\ ~(is_there_horizontal(b, row + 1) /\ is_there_vertical(b, column + 1))

EntityTouchesUnsplit(g, entity, border) ==
    \E i \in 1 .. Len(EntityCells(g, entity)) :
        TouchesUnsplit(g.borders, EntityCells(g, entity)[i][1], EntityCells(g, entity)[i][2], border)

StrictBorderSet(l) ==
    /\ l.op = "set"
    /\ IsSome(l.settings.border)
    /\ ~l.settings.border_split_check

\* C12: a set call with a border in the default strict mode fails whenever a
\* side or corner it carries lies on a boundary that was never split, and it
\* never draws on such a boundary: the split lines and the intersection slots
\* of the store are the same before and after the call.
C12_StrictSetFailsOnUnsplit ==
    [][StrictBorderSet(last') =>
            /\ EntityTouchesUnsplit(G, last'.entity, Unwrap(last'.settings.border)) => ~last'.ok
            /\ DOMAIN borders'.horizontal = DOMAIN borders.horizontal
            /\ DOMAIN borders'.vertical = DOMAIN borders.vertical
            /\ DOMAIN borders'.intersections = DOMAIN borders.intersections]_vars

\* a strict set call has just failed on a grid that has some split line but
\* not all the lines the border touches
C12_Witness ==
    /\ StrictBorderSet(last)
    /\ ~last.ok
    /\ status = "panic"
    /\ DOMAIN borders.vertical # {}
    /\ EntityTouchesUnsplit(G, last.entity, Unwrap(last.settings.border))

\* the characters a border asks for around the cells of an entity, as
\* <<kind, position, character>>, one per present side or corner of each cell
BorderRequests(g, entity, border) ==
    UNION {UNION {{<<step[1], step[2], Unwrap(step[3])>> : step \in {st \in {steps[k]} : IsSome(st[3])}} :
                    k \in 1 .. 8} :
           steps \in {BorderSteps(EntityCells(g, entity)[i][1], EntityCells(g, entity)[i][2], border) :
                        i \in 1 .. Len(EntityCells(g, entity))}}

\* the character store b holds at a position of a kind, if any
StoredChar(b, kind, pos) ==
    CASE kind = "column" -> get_vertical_char(b, pos[1], pos[2])
      [] kind = "row" -> get_horizontal_char(b, pos[1], pos[2])
      [] kind = "intersection" -> get_intersection_char(b, pos)

\* the positions of a kind on a store's boundaries
BorderPositions(b, kind) ==
    CASE kind = "column" -> Range0(0, b.count_rows) \X (0 .. b.count_columns)
      [] kind = "row" -> (0 .. b.count_rows) \X Range0(0, b.count_columns)
      [] kind = "intersection" -> (0 .. b.count_rows) \X (0 .. b.count_columns)

\* every requested position holds a character requested for it
RequestsStored(b, reqs) ==
    \A q \in reqs : \E p \in reqs :
        p[1] = q[1] /\ p[2] = q[2] /\ StoredChar(b, q[1], q[2]) = Some(p[3])

\* a character that was stored before is changed only where the border asks
OnlyRequestsChanged(before, b, reqs) ==
    \A kind \in {"column", "row", "intersection"} : \A pos \in BorderPositions(b, kind) :
        (IsSome(StoredChar(before, kind, pos)) /\ StoredChar(b, kind, pos) # StoredChar(before, kind, pos))
            => \E q \in reqs : q[1] = kind /\ q[2] = pos

LenientBorderSet(l) ==
    /\ l.op = "set"
    /\ IsSome(l.settings.border)
    /\ l.settings.border_split_check

\* C13: with border_restriction(false) a set call with a border on any
\* in-range entity succeeds from any border state: afterwards every split line
\* and intersection slot a present side or corner needs exists, a character
\* that was stored on an existing split line is changed only where the border
\* asks for one, and every requested position holds a requested character.
C13_LenientSetSucceeds ==
    [][LenientBorderSet(last') =>
            /\ last'.ok
            /\ ~EntityTouchesUnsplit(G', last'.entity, Unwrap(last'.settings.border))
            /\ \A reqs \in {BorderRequests(G, last'.entity, Unwrap(last'.settings.border))} :
                    /\ OnlyRequestsChanged(borders, borders', reqs)
                    /\ RequestsStored(borders', reqs)]_vars

\* a lenient set call has just drawn a border that needed a new split line
\* next to a split line that existed and held a character of its own
C13_Witness ==
    /\ LenientBorderSet(last)
    /\ last.ok
    /\ last.entity = Cell(0, 0)
    /\ Unwrap(last.settings.border).left = Some("#")
    /\ ~IsSome(Unwrap(last.settings.border).right)
    /\ get_vertical_char(borders, 0, 0) = Some("#")
    /\ get_vertical_char(borders, 0, 2) = Some("#")

\* the border of an in-range cell is read without an error and shows nothing
\* on a side whose boundary, or a corner whose intersection, is not stored
MissingEntryIsNoBorder(b, row, column) ==
    /\ IsSome(get_border(b, row, column))
    /\ \A n \in {Unwrap(get_border(b, row, column))} :
        /\ ~is_there_horizontal(b, row) => n.top = None
        /\ ~is_there_horizontal(b, row + 1) => n.bottom = None
        /\ ~is_there_vertical(b, column) => n.left = None
        /\ ~is_there_vertical(b, column + 1) => n.right = None
        /\ ~HasKey(b.intersections, <<row, column>>) => n.left_top_corner = None
        /\ ~HasKey(b.intersections, <<row, column + 1>>) => n.right_top_corner = None
        /\ ~HasKey(b.intersections, <<row + 1, column>>) => n.left_bottom_corner = None
        /\ ~HasKey(b.intersections, <<row + 1, column + 1>>) => n.right_bottom_corner = None

\* C14: after clear() no split line and no intersection is left and
\* get_border of every in-range cell returns a border with none of its eight
\* fields set; in every state a missing boundary or intersection entry reads
\* as "no border" on that side, never as an error.
C14_ClearLeavesNoBorder ==
    \A row \in Range0(0, size[1]), column \in Range0(0, size[2]) :
        /\ status = "ok" => MissingEntryIsNoBorder(borders, row, column)
        /\ (status = "ok" /\ last.op = "clear_split_grid") =>
                /\ borders.horizontal = EmptyMap
                /\ borders.vertical = EmptyMap
                /\ borders.intersections = EmptyMap
                /\ get_border(borders, row, column) = Some(BorderDefault)

\* clear() has just been called on a grid that had crossing split lines
C14_Witness ==
    /\ last.op = "clear_split_grid"
    /\ last.was_split
    /\ get_border(borders, 0, 1) = Some(BorderDefault)

\* the style the cascade Cell > Column > Row > Global gives an entity
Cascade(m, entity) ==
    CASE entity.kind = "Global" -> m[Global]
      [] entity.kind = "Column" ->
            IF HasKey(m, entity) THEN m[entity] ELSE m[Global]
      [] entity.kind = "Row" ->
            IF HasKey(m, entity) THEN m[entity] ELSE m[Global]
      [] entity.kind = "Cell" ->
            IF HasKey(m, entity) THEN m[entity]
            ELSE IF HasKey(m, Column(entity.col)) THEN m[Column(entity.col)]
            ELSE IF HasKey(m, Row(entity.row)) THEN m[Row(entity.row)]
            ELSE m[Global]

CascadeResolves(g) ==
    /\ HasKey(g.styles, Global)
    /\ \A entity \in Entities(g.size) :
        /\ IsSome(GridStyleOpt(g, entity))
        /\ GridStyle(g, entity) = Cascade(g.styles, entity)

\* C15: style(entity) returns the first stored override along Cell > Column >
\* Row > Global for a cell, Row > Global for a row and Column > Global for a
\* column, and always finds one: the Global entry exists from construction on
\* in the grid and in every extracted grid.
C15_CascadePriority ==
    /\ CascadeResolves(G)
    /\ (last.op = "extract" /\ last.ok) => CascadeResolves(last.result)

\* a cell without an override of its own whose column and row both have one,
\* with different styles
C15_Witness ==
    /\ HasKey(styles, Column(1))
    /\ HasKey(styles, Row(0))
    /\ ~HasKey(styles, Cell(0, 1))
    /\ styles[Column(1)] # styles[Row(0)]
    /\ GridStyle(G, Cell(0, 1)) = styles[Column(1)]

\* `wide` is a broader entity than `narrow`
Broader(wide, narrow) ==
    \/ wide.kind = "Global" /\ narrow.kind # "Global"
    \/ narrow.kind = "Cell" /\ wide = Row(narrow.row)
    \/ narrow.kind = "Cell" /\ wide = Column(narrow.col)

\* C16: once an entity has a style override of its own, a set call on a
\* broader entity (Row, Column or Global) leaves the style resolved for that
\* entity unchanged in every field.
C16_BroaderSetKeepsOverride ==
    [][last'.op = "set" =>
            \A entity \in Entities(size) :
                (HasKey(styles, entity) /\ Broader(last'.entity, entity))
                    => /\ HasKey(styles', entity)
                       /\ GridStyle(G', entity) = GridStyle(G, entity)]_vars

\* Global has just been given a span that differs from the span the override
\* of Cell(0, 0) holds
C16_Witness ==
    /\ last.op = "set"
    /\ last.entity = Global
    /\ IsSome(last.settings.span)
    /\ HasKey(styles, Cell(0, 0))
    /\ styles[Global].span = Unwrap(last.settings.span)
    /\ GridStyle(G, Cell(0, 0)).span # styles[Global].span

\* the value a set call leaves in a style field: the one the settings carry,
\* or the one that was resolved before
FieldAfter(given, before) == IF IsSome(given) THEN Unwrap(given) ELSE before

\* C17: a set call on an entity overwrites, in the style resolved for the
\* entity, exactly the style fields its settings carry (padding, horizontal
\* alignment, vertical alignment, span, formatting); every other field keeps
\* the value resolved before the call, also when the call creates the
\* entity's override.
C17_SetOverwritesOnlyGiven ==
    [][last'.op = "set" =>
            \A before \in {GridStyle(G, last'.entity)}, after \in {GridStyle(G', last'.entity)} :
                /\ after.padding = FieldAfter(last'.settings.padding, before.padding)
                /\ after.alignment_h = FieldAfter(last'.settings.alignment_h, before.alignment_h)
                /\ after.alignment_v = FieldAfter(last'.settings.alignment_v, before.alignment_v)
                /\ after.span = FieldAfter(last'.settings.span, before.span)
                /\ after.formatting = FieldAfter(last'.settings.formatting, before.formatting)]_vars

\* a set call has just created the override of Cell(0, 1), which resolved to
\* a style other than the default one before: the span came from Global
C17_Witness ==
    /\ last.op = "set"
    /\ last.entity = Cell(0, 1)
    /\ IsSome(last.settings.padding)
    /\ HasKey(styles, Cell(0, 1))
    /\ styles[Global].span # DefaultSpan
    /\ styles[Cell(0, 1)].span = styles[Global].span
    /\ styles[Cell(0, 1)].padding # styles[Global].padding

\* C18: after the span repair pass of a render, column 0 of every row has a
\* nonzero span.
C18_RowBeginsVisible ==
    last.op = "render" =>
        \A r \in 1 .. count_rows(G) : ResolvedStyles(G)[r][1].span > 0

\* max(1, max over the cells of row r of content lines + top and bottom
\* padding), read off the grid as it is stored (r counts from 1)
ExpectedHeight(g, r) ==
    MaxSeq(<<1>> \o [c \in 1 .. count_columns(g) |->
        Len(Lines(g.cells[r][c]))
            + GridStyle(g, Cell(r - 1, c - 1)).padding.top.size
            + GridStyle(g, Cell(r - 1, c - 1)).padding.bottom.size])

\* the lines build_row prints for row r (from 1) of grid g under layout l
LayoutRowParts(g, l, r) ==
    BuildRowParts(l.cells[r], l.styles[r], l.widths[r], Unwrap(l.normal_widths),
                  l.row_heights[r], g, r - 1)

\* the heights the render pass resolves for the rows of g
ResolvedHeights(g, fixed) == rows_height(fixed[2], fixed[1], count_rows(g), count_columns(g))

\* row r is printed as height content lines between its split lines, and the
\* render prints nothing else but the margin
PrintsHeights(g, l, printed) ==
    \A parts \in {[r \in 1 .. count_rows(g) |-> LayoutRowParts(g, l, r)]} :
        /\ \A r \in 1 .. count_rows(g) :
                /\ IsSome(parts[r].content)
                /\ Len(Unwrap(parts[r].content)) = ExpectedHeight(g, r)
        /\ Len(printed) = g.margin.top.size + g.margin.bottom.size
                + SumSeq([r \in 1 .. count_rows(g) |->
                            Len(parts[r].above) + ExpectedHeight(g, r) + Len(parts[r].below)])

\* C19: the height resolved for every row is max(1, max over the row's cells
\* of content line count + top padding + bottom padding), the row is printed
\* as exactly that many content lines, and so every row prints at least one.
C19_RowHeight ==
    status = "ok" =>
        /\ \A heights \in {ResolvedHeights(G, fix_spans(collect_styles(G), collect_cells(G)))} :
                \A r \in 1 .. count_rows(G) :
                    heights[r] = ExpectedHeight(G, r) /\ heights[r] >= 1
        /\ (last.op = "render" /\ last.ok) => PrintsHeights(G, Layout(G), last.result)

\* a grid whose row is two lines high has just been printed
C19_Witness ==
    /\ last.op = "render"
    /\ last.ok
    /\ ExpectedHeight(G, 1) = 2
    /\ Len(last.result) >= 2

\* (a) for a width matrix: every visible cell of span 1 holds its content and
\* its left and right padding
UnspannedCellsFit(widths) ==
    \A r \in 1 .. size[1], c \in 1 .. size[2] :
        (is_cell_visible(wk.styles[r], c - 1) /\ wk.styles[r][c].span = 1)
            => widths[r][c] >= cell_width(wk.cells[r][c], wk.styles[r][c])

\* (b) for a width matrix: over every range of every span value the rows in
\* scope have the same total width
RangeTotalsEqual(widths) ==
    \A i \in 1 .. Len(SpanValues(wk.styles)) :
        \A k \in {SpanValues(wk.styles)[i]} : \A c \in 0 .. size[2] - k :
            \A r, q \in InScopeRows(c, k) :
                row_width(wk.styles[r], widths[r], wk.borders[r], c, c + k)
                    = row_width(wk.styles[q], widths[q], wk.borders[q], c, c + k)

\* the sequences that are at most `s` at every position
RECURSIVE AtMost(_)
AtMost(s) ==
    IF s = <<>> THEN {<<>>}
    ELSE {<<x>> \o t : x \in 0 .. Head(s), t \in AtMost(Tail(s))}

\* the width matrices that are at most `widths` in every cell and smaller in
\* at least one
SmallerWidths(widths) ==
    {[r \in 1 .. size[1] |-> [c \in 1 .. size[2] |-> flat[(r - 1) * size[2] + c]]] :
        flat \in AtMost(Concat(widths)) \ {Concat(widths)}}

\* C20: the widths columns_width returns are minimal subject to (a) and (b):
\* no width matrix that is at most the computed one in every cell and smaller
\* in at least one satisfies both.
C20_WidthsMinimal ==
    WidthsResolved =>
        \A smaller \in SmallerWidths(wk.widths) :
            ~(UnspannedCellsFit(smaller) /\ RangeTotalsEqual(smaller))

\* C21: a column range is re-checked for completeness only when the ranges
\* of every larger span value of the grid have been adjusted: while the
\* re-check runs, no span value is left to adjust after the current one.
C21_RecheckAfterAllSpans ==
    pc = "is_range_complete" => Tail(wk.spans) = <<>>

-----------------------------------------------------------------------------
(* Rows of arbitrary spans: one row of LayoutSize[2] cells, every span from  *)
(* 0 to MaxSpan, measured by Grid::row_width or rendered step by step.       *)

\* Grid::row_width: the width of a row from the stored styles, no span repaired
GridRowWidth(g, row) ==
    row_width([c \in 1 .. count_columns(g) |-> GridStyle(g, Cell(row, c - 1))],
              [c \in 1 .. count_columns(g) |->
                    string_width(g.cells[row + 1][c])
                        + GridStyle(g, Cell(row, c - 1)).padding.left.size
                        + GridStyle(g, Cell(row, c - 1)).padding.right.size],
              get_inner_row(g.borders, row), 0, count_columns(g))

RowWidthCall ==
    /\ pc = "idle" /\ status = "ok" /\ last.op = "new"
    /\ \E row \in Range0(0, count_rows(G)) :
            last' = [op |-> "row_width", row |-> row, result |-> GridRowWidth(G, row)]
    /\ UNCHANGED <<gridVars, status, nops, pc, wk>>

RowSpanLayouts == [1 .. LayoutSize[2] -> 0 .. MaxSpan]

RowTextLayouts == {[c \in 1 .. LayoutSize[2] |-> n] : n \in 0 .. 1}

\* the string registered for the top boundary by Grid::override_split_line
RowOverride == <<"x", "y", "z", "u", "v">>

RowGrid(spans, texts, splits, override) ==
    LET g == SetLayoutCells(GridNew(1, LayoutSize[2]), RowMajor(0, 1, 0, LayoutSize[2]),
                            <<spans>>, <<texts>>)
        split == IF splits = "grid" THEN add_grid_split(g).g ELSE g
    IN IF override
       THEN [split EXCEPT !.override_split_lines = Insert(@, 0, RowOverride)]
       ELSE split

InitRow ==
    /\ \E spans \in RowSpanLayouts, texts \in RowTextLayouts, splits \in {"none", "grid"},
          override \in BOOLEAN :
            Holds(RowGrid(spans, texts, splits, override))
    /\ status = "ok"
    /\ last = [op |-> "new"]
    /\ nops = 0
    /\ pc = "idle"
    /\ wk = Idle

NextRow ==
    \/ RowWidthCall
    \/ RenderCollect
    \/ RenderFixSpans
    \/ RenderRowsHeight
    \/ RenderSeedWidths
    \/ RenderIncreaseWidths
    \/ RenderCopyWidths
    \/ RenderRecheckRange
    \/ RenderNormalizedWidth
    \/ RenderTotalWidth
    \/ RenderBuildRow

SpecRow == InitRow /\ [][NextRow]_vars

\* the stored styles of the cells of `row`, as Grid::row_width reads them
StoredRowStyles(g, row) == [c \in 1 .. count_columns(g) |-> GridStyle(g, Cell(row, c - 1))]

\* a cell that has a span and lies under no earlier cell that is itself shown
RECURSIVE ShownCell(_, _)
ShownCell(row_styles, col) ==
    /\ row_styles[col + 1].span # 0
    /\ ~\E i \in Range0(0, col) : ShownCell(row_styles, i) /\ row_styles[i + 1].span > col - i

\* C22: a cell is invisible exactly when its own span is 0 or an earlier
\* visible cell of its row spans over it; an earlier cell that is itself
\* invisible hides nothing. Checked on the styles Grid::row_width measures.
C22_HiddenOnlyByVisible ==
    last.op = "row_width" =>
        \A col \in Range0(0, count_columns(G)) :
            is_cell_visible(StoredRowStyles(G, last.row), col)
                <=> ShownCell(StoredRowStyles(G, last.row), col)

\* C23: rendering never changes the grid. A Display::fmt or Grid::total_width
\* call leaves the cell contents, the stored styles (the spans the repair pass
\* changes on its working copy included), the border store, the margin and the
\* override lines as they were; a set call stores the span it was given and
\* repairs no other stored span; and rendering the grid again after a render
\* prints the same lines.
C23_RenderKeepsGrid ==
    [][/\ last'.op \in {"render", "total_width"} => UNCHANGED gridVars
       /\ (last'.op = "render" /\ last'.ok) => Render(G') = Some(last'.result)
       /\ last'.op = "total_width" => GridTotalWidth(G') = last'.result
       /\ last'.op = "set" =>
            \A e \in DOMAIN styles' :
                styles'[e].span =
                    IF e = last'.entity
                    THEN FieldAfter(last'.settings.span, GridStyle(G, e).span)
                    ELSE styles[e].span]_vars

\* a grid whose stored spans the repair pass changes has just been measured
C23_Witness ==
    /\ last.op = "total_width"
    /\ status = "ok"
    /\ \E r \in 1 .. count_rows(G) : ResolvedStyles(G)[r] # StoredRowStyles(G, r - 1)

\* what the lines of the output are, top to bottom, read off grid g and the
\* row heights: the top margin band, the line of boundary 0 when it has a
\* horizontal split, then for every row its content lines and the line of
\* the boundary below it when that has a split, then the bottom margin band
OutputOrder(g, row_heights) ==
    [i \in 1 .. g.margin.top.size |-> [kind |-> "margin", row |-> 0, line |-> 0, fill |-> g.margin.top.fill]]
    \o (IF is_there_horizontal(g.borders, 0)
        THEN <<[kind |-> "border", row |-> 0, line |-> 0]>> ELSE <<>>)
    \o Concat([r \in 1 .. count_rows(g) |->
            [l \in 1 .. row_heights[r] |-> [kind |-> "content", row |-> r, line |-> l]]
            \o (IF is_there_horizontal(g.borders, r)
                THEN <<[kind |-> "border", row |-> r, line |-> 0]>> ELSE <<>>)])
    \o [i \in 1 .. g.margin.bottom.size |-> [kind |-> "margin", row |-> 0, line |-> 0, fill |-> g.margin.bottom.fill]]

\* the line of the output that `what` names, under layout l of grid g
OutputLine(g, l, what) ==
    CASE what.kind = "margin" -> repeat_char(what.fill, l.total_width)
      [] what.kind = "border" ->
            repeat_char(g.margin.left.fill, g.margin.left.size)
                \o build_split_line_with_override(Unwrap(l.normal_widths),
                        get_row(g.borders, what.row),
                        IF HasKey(g.override_split_lines, what.row)
                        THEN Some(g.override_split_lines[what.row]) ELSE None)
                \o repeat_char(g.margin.right.fill, g.margin.right.size)
      [] what.kind = "content" ->
            Unwrap(build_line(l.borders[what.row], l.styles[what.row], l.cells[what.row],
                              l.widths[what.row], l.row_heights[what.row],
                              Len(l.cells[what.row]), what.line - 1, g.margin))

PrintedInOrder(g, l, printed) ==
    \A order \in {OutputOrder(g, l.row_heights)} :
        /\ Len(printed) = Len(order)
        /\ \A i \in 1 .. Len(order) : printed[i] = OutputLine(g, l, order[i])

PrintedBoundary(b) == IF b = 0 THEN wk.printed[1].above ELSE wk.printed[b].below

\* string s laid over line L: as much of s as fits, then L from there on
LaidOver(s, L) ==
    SubSeq(s, 1, Min2(Len(s), Len(L))) \o SubSeq(L, Min2(Len(s), Len(L)) + 1, Len(L))

\* C25: a horizontal border line whose boundary has an override string s is
\* printed as the first min(|s|, W) characters of s followed by the normal
\* line L from that position on, where W is the length of L; a longer
\* override is cut, and the printed line is W characters long.
C25_OverrideLine ==
    pc = "done" =>
        \A b \in DOMAIN override_split_lines :
            is_there_horizontal(borders, b) =>
                \A L \in {build_split_line(wk.normal_widths, get_row(borders, b), 0)} :
                    /\ PrintedBoundary(b) =
                        << repeat_char(margin.left.fill, margin.left.size)
                           \o LaidOver(override_split_lines[b], L)
                           \o repeat_char(margin.right.fill, margin.right.size) >>
                    /\ Len(PrintedBoundary(b)[1]) = margin.left.size + Len(L) + margin.right.size

\* the top border line has been printed under an override that is shorter
\* than the line
C25_Witness ==
    /\ pc = "done"
    /\ HasKey(override_split_lines, 0)
    /\ is_there_horizontal(borders, 0)
    /\ Len(PrintedBoundary(0)[1]) > Len(override_split_lines[0])
    /\ SubSeq(PrintedBoundary(0)[1], 1, Len(RowOverride)) = RowOverride

\* the top border line has been printed under an override that is longer
\* than the line
C25_WitnessCut ==
    /\ pc = "done"
    /\ HasKey(override_split_lines, 0)
    /\ is_there_horizontal(borders, 0)
    /\ Len(PrintedBoundary(0)[1]) < Len(override_split_lines[0])

-----------------------------------------------------------------------------
(* SpecCell: one render pass over 2x2 grids in which Cell(0, 0) takes every  *)
(* content, alignment, padding, formatting and span of the families below,  *)
(* Cell(1, 0) holds a wide line and Cell(0, 1) one line or three.           *)

CellTexts ==
    {<<>>, <<"a">>, <<"a", "b", NL, "c">>, <<" ", "a", NL, "b", "c">>, <<NL, "a">>}

CellPaddings ==
    {PaddingDefault,
     [top |-> Indent(1, "^"), bottom |-> Indent(1, "_"),
      left |-> Indent(1, "<"), right |-> Indent(1, ">")]}

CellFormattings ==
    {FormattingDefault,
     [FormattingDefault EXCEPT !.allow_lines_alignement = TRUE],
     [FormattingDefault EXCEPT !.horizontal_trim = TRUE],
     [FormattingDefault EXCEPT !.vertical_trim = TRUE]}

CellSettings ==
    {SettingsFormatting(
        SettingsSpan(
            SettingsVerticalAlignment(
                SettingsAlignment(
                    SettingsPadding(SettingsText(SettingsNew, text),
                                    pad.left, pad.right, pad.top, pad.bottom),
                    ah),
                av),
            span),
        fmt) :
            text \in CellTexts, pad \in CellPaddings, ah \in {"Left", "Right", "Center"},
            av \in {"Top", "Center", "Bottom"}, span \in 1 .. 2, fmt \in CellFormattings}

WideText == <<"a", "a", "a", "a">>

TallTexts == {<<"a">>, <<"a", NL, "a", NL, "a">>}

CellGrid(settings, tall) ==
    GridSet(GridSet(GridSet(GridNew(2, 2), Cell(0, 0), settings).g,
                    Cell(1, 0), SettingsText(SettingsNew, WideText)).g,
            Cell(0, 1), SettingsText(SettingsNew, tall)).g

InitCell ==
    /\ \E settings \in CellSettings, tall \in TallTexts : Holds(CellGrid(settings, tall))
    /\ status = "ok"
    /\ last = [op |-> "new"]
    /\ nops = 0
    /\ pc = "idle"
    /\ wk = Idle

SpecCell == InitCell /\ [][NextLayout]_vars

\* the lines of a cell that are printed as text: the cell's lines, without
\* the blank ones at both ends under vertical_trim, each trimmed under
\* horizontal_trim
ShownLines(cell, style) ==
    [i \in 1 .. Len(IF style.formatting.vertical_trim THEN skip_empty_lines(cell) ELSE cell) |->
        IF style.formatting.horizontal_trim
        THEN Trim((IF style.formatting.vertical_trim THEN skip_empty_lines(cell) ELSE cell)[i])
        ELSE (IF style.formatting.vertical_trim THEN skip_empty_lines(cell) ELSE cell)[i]]

\* the fill columns in front of a text that is aligned in `inner` columns
\* against a reference of `against` columns
LeadingFill(alignment, inner, against) ==
    CASE alignment = "Left" -> 0
      [] alignment = "Right" -> inner - against
      [] alignment = "Center" -> (inner - against) \div 2

\* a text line of a cell of `width` columns: the left padding, the leading
\* fill, the text, the fill that is left and the right padding
AlignedLine(text, shown, style, width) ==
    \* inner: the columns between the paddings; lead: the leading fill
    LET inner == width - style.padding.left.size - style.padding.right.size
        lead == LeadingFill(style.alignment_h, inner,
                    IF style.formatting.allow_lines_alignement
                    THEN Len(text)
                    ELSE MaxSeq([i \in 1 .. Len(shown) |-> Len(shown[i])]))
    IN Repeat(style.padding.left.fill, style.padding.left.size)
        \o Repeat(" ", lead) \o text \o Repeat(" ", inner - lead - Len(text))
        \o Repeat(style.padding.right.fill, style.padding.right.size)

\* what content line l of row r prints for the cell in column 0
CellPrinted(r, l) == SubSeq(Unwrap(wk.printed[r].content)[l], 1, wk.widths[r][1])

\* the cells of row r that are printed, their widths added up
PrintedWidth(r) ==
    SumSeq([c \in 1 .. size[2] |->
        IF is_cell_visible(wk.styles[r], c - 1) THEN wk.widths[r][c] ELSE 0])

\* the text lines of the cell in column 0 of row r are printed one after
\* the other from content line a + 1 on, each aligned
TextPrintedFrom(r, a, shown) ==
    \A i \in 1 .. Len(shown) :
        CellPrinted(r, a + i) = AlignedLine(shown[i], shown, wk.styles[r][1], wk.widths[r][1])

\* C26: with allow_lines_alignement unset every text line of a cell gets the
\* same leading fill, computed from the cell's widest line (Left 0, Right
\* width - widest, Center half of width - widest, rounded down); with the flag
\* set every line is aligned by its own width against the full width; and
\* every printed cell line is as wide as the width resolved for the cell.
C26_LinesAlignedTogether ==
    pc = "done" =>
        \A shown \in {ShownLines(wk.cells[1][1], wk.styles[1][1])} :
            /\ \E a \in 0 .. wk.row_heights[1] - Len(shown) : TextPrintedFrom(1, a, shown)
            /\ \A l \in 1 .. wk.row_heights[1] :
                    Len(Unwrap(wk.printed[1].content)[l]) = PrintedWidth(1)

\* a cell of two lines of different widths, aligned to the right with the
\* flag unset in a column wider than its widest line, has been printed
C26_Witness ==
    /\ pc = "done"
    /\ wk.styles[1][1].alignment_h = "Right"
    /\ ~wk.styles[1][1].formatting.allow_lines_alignement
    /\ Len(wk.cells[1][1]) = 2
    /\ Len(wk.cells[1][1][1]) # Len(wk.cells[1][1][2])
    /\ wk.widths[1][1] > 2 + wk.styles[1][1].padding.left.size + wk.styles[1][1].padding.right.size

\* no span of the matrix reaches past the last column
SpansInsideGrid(styles_) ==
    \A r \in 1 .. Len(styles_) : \A c \in 1 .. Len(styles_[r]) :
        (c - 1) + styles_[r][c].span <= Len(styles_[r])

\* C27: in normalized_width the subtraction widths[row][col] - (span - 1)
\* never underflows on a grid whose spans stay inside the grid: the walk over
\* the columns returns the normalized widths, whatever the cells hold and
\* whether or not there are vertical split lines.
C27_NormalizeNeverUnderflows ==
    (pc = "normalized_width" /\ SpansInsideGrid(collect_styles(G)) /\ SpansInsideGrid(wk.styles))
        => IsSome(normalized_width(wk.widths, wk.styles, size[1], size[2]))

\* the visible cells of the row whose range [c, c + span(c)) holds column k
CoveringCells(row_styles, k) ==
    {c \in Range0(0, Len(row_styles)) :
        /\ is_cell_visible(row_styles, c)
        /\ c <= k
        /\ k < c + row_styles[c + 1].span}

\* the ranges of the visible cells partition the columns of the row, and the
\* cells of span 0 are the invisible ones
RangesPartition(row_styles) ==
    /\ \A k \in Range0(0, Len(row_styles)) : Cardinality(CoveringCells(row_styles, k)) = 1
    /\ \A c \in Range0(0, Len(row_styles)) :
            /\ row_styles[c + 1].span = 0 <=> ~is_cell_visible(row_styles, c)
            /\ c + row_styles[c + 1].span <= Len(row_styles)

\* C28: after the repair passes (fix_invisible_cell, fix_first_column_span,
\* fix_zero_column_span), in every row that has a cell of nonzero span and no
\* span past the grid edge, the ranges [c, c + span(c)) of the visible cells
\* partition the columns: every column lies in the range of exactly one
\* visible cell, and a cell has span 0 exactly when it is invisible.
C28_VisibleRangesPartition ==
    pc = "rows_height" =>
        \A r \in 1 .. size[1] :
            (/\ \E c \in 1 .. size[2] : wk.styles[r][c].span # 0
             /\ \A c \in 1 .. size[2] : (c - 1) + wk.styles[r][c].span <= size[2])
                => RangesPartition(wk.styles[r])

\* the repair pass has widened the first cell of a row over a cell of span 0
\* that no cell covered
C28_Witness ==
    /\ pc = "rows_height"
    /\ StoredRowStyles(G, 0)[1].span = 1
    /\ StoredRowStyles(G, 0)[2].span = 0
    /\ StoredRowStyles(G, 0)[3].span = 1
    /\ wk.styles[1][1].span = 2
    /\ RangesPartition(wk.styles[1])

\* a style field that the settings do not carry is the same in both styles
FieldKept(given, before, after) == IsSome(given) \/ after = before

\* C29: a set call whose settings carry only style fields changes, in the
\* style resolved for every cell of the grid, only the fields the settings
\* carry: every other field resolves for the cell as it did before the call,
\* whatever overrides were stored earlier.
C29_SetKeepsOtherFields ==
    [][(/\ last'.op = "set"
        /\ ~IsSome(last'.settings.text)
        /\ ~IsSome(last'.settings.border))
            => \A r \in Range0(0, size[1]), c \in Range0(0, size[2]) :
                \A before \in {GridStyle(G, Cell(r, c))}, after \in {GridStyle(G', Cell(r, c))} :
                    /\ FieldKept(last'.settings.padding, before.padding, after.padding)
                    /\ FieldKept(last'.settings.alignment_h, before.alignment_h, after.alignment_h)
                    /\ FieldKept(last'.settings.alignment_v, before.alignment_v, after.alignment_v)
                    /\ FieldKept(last'.settings.span, before.span, after.span)
                    /\ FieldKept(last'.settings.formatting, before.formatting, after.formatting)]_vars

\* the cell in column 0 of row r is printed as `a` lines of top padding fill,
\* its text lines in order, and bottom padding fill on the lines that are left
PrintedAsColumn(r, a, shown) ==
    /\ \A l \in 1 .. a :
            CellPrinted(r, l) = Repeat(wk.styles[r][1].padding.top.fill, wk.widths[r][1])
    /\ TextPrintedFrom(r, a, shown)
    /\ \A l \in (a + Len(shown) + 1) .. wk.row_heights[r] :
            CellPrinted(r, l) = Repeat(wk.styles[r][1].padding.bottom.fill, wk.widths[r][1])

\* C30: for every vertical alignment a visible cell is printed as at least
\* padding.top.size lines of top padding fill, then every text line of the
\* cell in order, then at least padding.bottom.size lines of bottom padding
\* fill; the vertical indent is computed without underflow, so the row is
\* printed.
C30_PaddingAroundContent ==
    /\ status = "ok"
    /\ pc = "done" =>
        \A shown \in {ShownLines(wk.cells[1][1], wk.styles[1][1])} :
            \E a \in wk.styles[1][1].padding.top.size .. wk.row_heights[1] - Len(shown) :
                /\ PrintedAsColumn(1, a, shown)
                /\ wk.row_heights[1] - a - Len(shown) >= wk.styles[1][1].padding.bottom.size

====
